---- MODULE Spec2Model ----
(***************************************************************************)
(* Model of the story-script-tools utilities:                              *)
(*   - MediaResizer._calculate_dimensions / resize_image (media_resizer.py)*)
(*   - parse_story_script (story_parser.py)                                *)
(*   - SubtitleTranslator.parse_srt / save_srt (subtitle_translator.py)    *)
(*   - StoryEnhancer.add_plot_twist / enhance_story (story_enhancer.py)    *)
(*   - VideoConverter.convert (video_converter.py)                         *)
(*   - Character.add_personality_trait (character.py)                      *)
(*   - Character's other methods, to_dict and from_dict (character.py)     *)
(*   - VideoEditor.trim_video (video_editor.py)                            *)
(*   - SubtitleTranslator.process_subtitles (subtitle_translator.py)       *)
(* For the pure functions each specification draws the arguments of one    *)
(* call in its initial state and applies the function in one action; the   *)
(* converter and the character are objects that take sequences of calls.   *)
(***************************************************************************)
EXTENDS Integers, Sequences, FiniteSets, TLC

VARIABLES
    pc,              \* position of the single caller
    current_width,   \* _calculate_dimensions arguments
    current_height,
    target_ratio,
    max_dimension,
    dims,            \* what _calculate_dimensions returned or raised
    paste,           \* resize_image: (paste_x, paste_y)
    story_is_str,    \* parse_story_script argument: isinstance(story_script, str)
    story_script,    \* ... and its characters
    story_result,    \* what parse_story_script returned or raised
    srt_doc,         \* the blocks the SRT text was put together from
    srt_is_str,      \* parse_srt argument: isinstance(srt_content, str)
    srt_content,     \* ... and its characters
    srt_result,      \* what parse_srt returned or raised
    entries_in,      \* save_srt argument: the SubtitleEntry list
    srt_file,        \* the file save_srt wrote (NoValue: no file)
    enh_scenes,      \* add_plot_twist argument: the caller's list of scenes
    enh_twist,       \* add_plot_twist argument: a plot twist or NoValue (None)
    enh_script,      \* enhance_story argument
    enh_result,      \* what add_plot_twist or enhance_story returned or raised
    files,           \* VideoConverter: the files of output_dir, name -> content
    conv_calls,      \* number of convert calls made
    conv_call,       \* arguments of the last convert call
    conv_result,     \* what the last convert call returned or raised
    ffmpeg_log,      \* the ffmpeg commands the last convert call ran
    personality,     \* Character.personality
    trait_calls,     \* the traits add_personality_trait was called with, in order
    video_duration,  \* VideoEditor: video.duration of the input video
    trim_call,       \* arguments of the last trim_video call
    trim_result,     \* what the last trim_video call returned or raised
    edited,          \* the files of the editor's output_dir, name -> clip
    edited_before,   \* ... as they were when the last trim_video call began
    pipe_doc,        \* process_subtitles: the blocks the input file was put together from
    pipe_call,       \* ... its arguments
    tts_generator,   \* SubtitleTranslator.tts_generator is not None
    pipe_entries,    \* ... its local variables entries,
    pipe_translated, \*     translated_entries
    pipe_dict,       \*     and result
    api_log,         \* the requests made to the translation API, with their responses
    tts_log,         \* the generate_speech calls made on the TTS generator
    out_files,       \* the files of the translator's output_dir, name -> content
    pipe_result,     \* what process_subtitles returned or raised
    pipe_steps,      \* the methods process_subtitles has called, in order
    heap,            \* Character objects: the lists, dicts and dataclass instances made
    char_c,          \* the character c: its attributes (references into heap)
    char_d,          \* the character d = Character.from_dict(c.to_dict()), once made
    char_calls,      \* number of calls made on c and d
    char_call,       \* the last call: its target, method and arguments
    char_result,     \* what the last call returned or raised
    heap_before      \* heap as it was when the last call began

geomVars == <<current_width, current_height, target_ratio, max_dimension, dims, paste>>
storyVars == <<story_is_str, story_script, story_result>>
srtVars == <<srt_doc, srt_is_str, srt_content, srt_result, entries_in, srt_file>>
enhVars == <<enh_scenes, enh_twist, enh_script, enh_result>>
convVars == <<files, conv_calls, conv_call, conv_result, ffmpeg_log>>
charVars == <<personality, trait_calls>>
editVars == <<video_duration, trim_call, trim_result, edited, edited_before>>
pipeVars == <<pipe_doc, pipe_call, tts_generator, pipe_entries, pipe_translated, pipe_dict,
              api_log, tts_log, out_files, pipe_result, pipe_steps>>
objVars == <<heap, char_c, char_d, char_calls, char_call, char_result, heap_before>>
moreVars == <<editVars, pipeVars, objVars>>
toolVars == <<enhVars, convVars, charVars, moreVars>>
parserVars == <<geomVars, storyVars, srtVars>>
vars == <<pc, geomVars, storyVars, srtVars, enhVars, convVars, charVars, moreVars>>

(***************************************************************************)
(* Bounds of the model                                                     *)
(***************************************************************************)
MaxSize == 24        \* source width and height range over 1..MaxSize
MaxDimension == 14   \* max_dimension ranges over 1..MaxDimension

MaxPieces == 4       \* a story script is put together from at most MaxPieces pieces
MaxBlocks == 2       \* an SRT text has at most MaxBlocks blocks
MaxEntries == 2      \* save_srt is given at most MaxEntries entries
MaxTraitCalls == 5   \* add_personality_trait is called at most MaxTraitCalls times
MaxScenes == 3       \* add_plot_twist is given at most MaxScenes scenes
MaxConverts == 2     \* convert is called at most MaxConverts times
MaxDuration == 3     \* the input video of trim_video lasts 1..MaxDuration time units
MaxCharCalls == 3    \* at most MaxCharCalls calls are made on the characters c and d

NoValue == [none |-> TRUE]

\* An optional argument that was given (NoValue: None).
Given(v) == [none |-> FALSE, value |-> v]

Range(seq) == { seq[k] : k \in 1..Len(seq) }

\* The outcome of a call: an exception raised to the caller, or a value returned.
\* arg is what the message is formatted with, context the exception that was
\* being handled when this one was raised (__context__).
RaiseFrom(kind, msg, arg, ctx) ==
    [raised |-> TRUE, error |-> kind, message |-> msg, arg |-> arg, context |-> ctx,
     value |-> NoValue]
Raise(kind, msg) == RaiseFrom(kind, msg, NoValue, NoValue)
Return(v) ==
    [raised |-> FALSE, error |-> "", message |-> "", arg |-> NoValue, context |-> NoValue,
     value |-> v]

\* A component that takes no part in a specification keeps these values.
IdleGeom ==
    /\ current_width = 1
    /\ current_height = 1
    /\ target_ratio = <<1, 1>>
    /\ max_dimension = 1
    /\ dims = NoValue
    /\ paste = NoValue

IdleStory ==
    /\ story_is_str = TRUE
    /\ story_script = <<>>
    /\ story_result = NoValue

IdleSrt ==
    /\ srt_doc = <<>>
    /\ srt_is_str = TRUE
    /\ srt_content = <<>>
    /\ srt_result = NoValue
    /\ entries_in = <<>>
    /\ srt_file = NoValue

IdleEnhancer ==
    /\ enh_scenes = <<>>
    /\ enh_twist = NoValue
    /\ enh_script = <<>>
    /\ enh_result = NoValue

NoFiles == [name \in {} |-> NoValue]

IdleConverter ==
    /\ files = NoFiles
    /\ conv_calls = 0
    /\ conv_call = NoValue
    /\ conv_result = NoValue
    /\ ffmpeg_log = <<>>

IdleCharacter ==
    /\ personality = <<>>
    /\ trait_calls = <<>>

IdleEditor ==
    /\ video_duration = 0
    /\ trim_call = NoValue
    /\ trim_result = NoValue
    /\ edited = NoFiles
    /\ edited_before = NoFiles

IdlePipeline ==
    /\ pipe_doc = [blocks |-> <<>>]
    /\ pipe_call = NoValue
    /\ tts_generator = FALSE
    /\ pipe_entries = <<>>
    /\ pipe_translated = <<>>
    /\ pipe_dict = NoFiles
    /\ api_log = <<>>
    /\ tts_log = <<>>
    /\ out_files = NoFiles
    /\ pipe_result = NoValue
    /\ pipe_steps = <<>>

IdleObjects ==
    /\ heap = <<>>
    /\ char_c = NoValue
    /\ char_d = NoValue
    /\ char_calls = 0
    /\ char_call = NoValue
    /\ char_result = NoValue
    /\ heap_before = <<>>

IdleMore == IdleEditor /\ IdlePipeline /\ IdleObjects
IdleTools == IdleEnhancer /\ IdleConverter /\ IdleCharacter /\ IdleMore
IdleParsers == IdleGeom /\ IdleStory /\ IdleSrt

(***************************************************************************)
(* IEEE-754 double arithmetic of the three float expressions of            *)
(* _calculate_dimensions, on integer operands.                             *)
(*                                                                         *)
(* Python computes  int(m * (a / n))  and  int(w / (a / n))  in binary64:  *)
(* a / n is rounded to 53 significant bits, the product (quotient) is      *)
(* rounded again, int() truncates.  When the exact value m*a/n is not an   *)
(* integer it lies at least 1/n from one, far more than the rounding       *)
(* error, so truncation gives the exact floor.  When it is an integer K    *)
(* the result is K or K - 1, decided by the direction and size of the      *)
(* rounding error of a / n, which depends only on (a * 2^s) mod n, where   *)
(* s = 52 - floor(log2(a / n)) is the scaling of the significand.          *)
(***************************************************************************)
MantissaBits == 52

RECURSIVE Pow2(_)
Pow2(k) == IF k <= 0 THEN 1 ELSE 2 * Pow2(k - 1)

\* (2^s) mod n by repeated doubling (no large intermediate).
RECURSIVE Pow2Mod(_, _)
Pow2Mod(s, n) == IF s <= 0 THEN 1 % n ELSE (2 * Pow2Mod(s - 1, n)) % n

\* floor(log2(a / n)) for a, n >= 1: the binary exponent of the quotient.
RECURSIVE QuotExp(_, _)
QuotExp(a, n) ==
    IF a >= 2 * n THEN 1 + QuotExp(a, 2 * n)
    ELSE IF a < n THEN QuotExp(2 * a, n) - 1
    ELSE 0

\* The e with 2^e < K <= 2^(e+1), K >= 1: doubles just below K are spaced 2^(e-52).
RECURSIVE ExpBelow(_)
ExpBelow(K) == IF K <= 1 THEN -1 ELSE 1 + ExpBelow((K + 1) \div 2)

\* L * 2^t > R, for t of either sign.
ScaledGreater(L, t, R) ==
    IF t >= 0 THEN L * Pow2(t) > R ELSE L > R * Pow2(-t)

\* Remainder that decides how a / n is rounded to a double:
\* 0 = exact, below n/2 = rounded down, above n/2 = rounded up.
QuotRem(a, n) == ((a % n) * Pow2Mod(MantissaBits - QuotExp(a, n), n)) % n

\* int(m * (a / n))
FloatMulTrunc(m, a, n) ==
    IF m = 0 THEN 0
    ELSE IF (m * a) % n # 0 THEN (m * a) \div n
    ELSE LET K == (m * a) \div n
             r == QuotRem(a, n)
             t == 1 - ExpBelow(K) + QuotExp(a, n)
         IN  IF r # 0 /\ 2 * r < n /\ ScaledGreater(m * r, t, n)
             THEN K - 1 ELSE K

\* int(w / (a / n))
FloatDivTrunc(w, a, n) ==
    IF w = 0 THEN 0
    ELSE IF (w * n) % a # 0 THEN (w * n) \div a
    ELSE LET K == (w * n) \div a
             r == QuotRem(a, n)
             t == 1 - ExpBelow(K) + QuotExp(a, n)
         IN  IF 2 * r > n /\ ScaledGreater(K * (n - r), t, a)
             THEN K - 1 ELSE K

(***************************************************************************)
(* MediaResizer                                                            *)
(***************************************************************************)
COMMON_RATIOS == { <<16, 9>>, <<9, 16>>, <<1, 1>>, <<4, 3>>, <<3, 4>> }

\* FitToRatio leaving the source size as it is.
FitToRatioKeepingSource(cw, ch, tw, th) == [w |-> cw, h |-> ch]

\* Lines 66-74: the size of the content before the max_dimension limit.
FitToRatio(cw, ch, tw, th) ==
    IF cw * th > tw * ch            \* current_aspect > target_aspect
    THEN [w |-> FloatMulTrunc(ch, tw, th), h |-> ch]
    ELSE [w |-> cw, h |-> FloatDivTrunc(cw, tw, th)]

\* ScaleDown with "and" for the "or" of line 77.
ScaleDownIfBothExceed(n, md) ==
    IF n.w > md /\ n.h > md
    THEN LET d == IF n.w > n.h THEN n.w ELSE n.h
         IN  [w |-> FloatMulTrunc(n.w, md, d), h |-> FloatMulTrunc(n.h, md, d)]
    ELSE n

\* ScaleDown without the test of line 77.
ScaleToMaxDimension(n, md) ==
    LET d == IF n.w > n.h THEN n.w ELSE n.h
    IN  [w |-> FloatMulTrunc(n.w, md, d), h |-> FloatMulTrunc(n.h, md, d)]

\* Lines 76-83: scale down if a dimension exceeds max_dimension.
ScaleDown(n, md) ==
    IF n.w > md \/ n.h > md
    THEN LET d == IF n.w > n.h THEN n.w ELSE n.h    \* scale = md / d
         IN  [w |-> FloatMulTrunc(n.w, md, d), h |-> FloatMulTrunc(n.h, md, d)]
    ELSE n

\* PadTarget with the ratio's height over its width.
PadTargetInverted(n, tw, th) ==
    IF n.w * tw > th * n.h
    THEN [w |-> FloatMulTrunc(n.h, th, tw), h |-> n.h]
    ELSE [w |-> n.w, h |-> FloatDivTrunc(n.w, th, tw)]

\* Lines 85-91: the padded canvas.
PadTarget(n, tw, th) ==
    IF n.w * th > tw * n.h          \* new_width / new_height > target_aspect
    THEN [w |-> FloatMulTrunc(n.h, tw, th), h |-> n.h]
    ELSE [w |-> n.w, h |-> FloatDivTrunc(n.w, tw, th)]

\* _calculate_dimensions: line 86 divides by new_height.
CalculateDimensionsOf(cw, ch, ratio, md) ==
    LET tw == ratio[1]
        th == ratio[2]
        n  == ScaleDown(FitToRatio(cw, ch, tw, th), md)
    IN  IF n.h = 0
        THEN Raise("ZeroDivisionError", "division by zero")
        ELSE LET t == PadTarget(n, tw, th)
             IN  Return([new_width |-> n.w, new_height |-> n.h,
                         target_width |-> t.w, target_height |-> t.h])

\* resize_image lines 141-143 (resize_video lines 204-206 compute the same).
PastePosition(d) ==
    [x |-> (d.target_width - d.new_width) \div 2,
     y |-> (d.target_height - d.new_height) \div 2]

(***************************************************************************)
(* Text: a Python str is a sequence of one-character strings.              *)
(***************************************************************************)
Whitespace == {" ", "\n", "\t", "\r"}     \* what \s and str.strip() match here
Digits == {"0", "1", "2", "3", "4", "5", "6", "7", "8", "9"}

IsSpace(c) == c \in Whitespace
IsDigit(c) == c \in Digits

DigitVal(c) ==
    CASE c = "0" -> 0 [] c = "1" -> 1 [] c = "2" -> 2 [] c = "3" -> 3 [] c = "4" -> 4
      [] c = "5" -> 5 [] c = "6" -> 6 [] c = "7" -> 7 [] c = "8" -> 8 [] c = "9" -> 9

\* int() of a string of decimal digits.
RECURSIVE DigitsToInt(_)
DigitsToInt(ds) ==
    IF ds = <<>> THEN 0
    ELSE 10 * DigitsToInt(SubSeq(ds, 1, Len(ds) - 1)) + DigitVal(ds[Len(ds)])

\* s[i-1:j-1] of Python, with 1-based inclusive bounds; empty when j < i.
Slice(s, i, j) == IF j < i THEN <<>> ELSE SubSeq(s, i, j)

RECURSIVE LStrip(_)
LStrip(s) == IF s # <<>> /\ IsSpace(Head(s)) THEN LStrip(Tail(s)) ELSE s

RECURSIVE RStrip(_)
RStrip(s) ==
    IF s # <<>> /\ IsSpace(s[Len(s)]) THEN RStrip(SubSeq(s, 1, Len(s) - 1)) ELSE s

\* str.strip()
Strip(s) == RStrip(LStrip(s))

\* First index >= i of s whose character is not in set cs (Len(s)+1 if none):
\* where a greedy  [cs]*  that starts at i stops.
RECURSIVE SkipChars(_, _, _)
SkipChars(s, i, cs) ==
    IF i <= Len(s) /\ s[i] \in cs THEN SkipChars(s, i + 1, cs) ELSE i

\* s has the literal lit at index i.
HasLiteral(s, i, lit) ==
    /\ i >= 1
    /\ i + Len(lit) - 1 <= Len(s)
    /\ SubSeq(s, i, i + Len(lit) - 1) = lit

RECURSIVE Flatten(_)
Flatten(ss) == IF ss = <<>> THEN <<>> ELSE Head(ss) \o Flatten(Tail(ss))

(***************************************************************************)
(* parse_story_script                                                      *)
(***************************************************************************)
SceneWord == <<"S", "c", "e", "n", "e">>

\* The marker  Scene\s+(\d+):  at index i.  \s+ and \d+ are greedy and what
\* follows each cannot match what it consumed, so there is one way to match.
\* end is the index of the first character after the colon.
MarkerAt(s, i) ==
    LET sp == i + Len(SceneWord)
        ds == SkipChars(s, sp, Whitespace)
        de == SkipChars(s, ds, Digits)
    IN  IF /\ HasLiteral(s, i, SceneWord)
           /\ ds > sp
           /\ de > ds
           /\ de <= Len(s)
           /\ s[de] = ":"
        THEN [ok |-> TRUE, digits |-> SubSeq(s, ds, de - 1), end |-> de + 1]
        ELSE [ok |-> FALSE, digits |-> <<>>, end |-> i]

\* The lookahead  (?=Scene\s+\d+:|$)  at index j; without re.MULTILINE  $
\* matches at the end of the string and before a newline that ends it.
LookaheadAt(s, j) ==
    \/ MarkerAt(s, j).ok
    \/ j = Len(s) + 1
    \/ (j = Len(s) /\ s[j] = "\n")

\* Where the lazy  (.+?)  that starts at index b stops: it takes one
\* character (any, under re.DOTALL), then as few more as the lookahead allows.
RECURSIVE LazyBodyEnd(_, _)
LazyBodyEnd(s, j) == IF LookaheadAt(s, j) THEN j ELSE LazyBodyEnd(s, j + 1)

\* The whole pattern of line 50 at index i.
SceneMatchAt(s, i) ==
    LET m == MarkerAt(s, i)
    IN  IF m.ok /\ m.end <= Len(s)
        THEN LET j == LazyBodyEnd(s, m.end + 1)
             IN  [ok |-> TRUE, digits |-> m.digits,
                  body |-> SubSeq(s, m.end, j - 1), end |-> j]
        ELSE [ok |-> FALSE, digits |-> <<>>, body |-> <<>>, end |-> i]

\* Lines 57-65: one dictionary per match.
SceneOf(m) == [scene_number |-> DigitsToInt(m.digits), description |-> Strip(m.body)]

\* re.finditer from index i (lines 53-65): leftmost match, then on from its end.
RECURSIVE FindScenes(_, _)
FindScenes(s, i) ==
    IF i > Len(s) THEN <<>>
    ELSE LET m == SceneMatchAt(s, i)
         IN  IF m.ok THEN <<SceneOf(m)>> \o FindScenes(s, m.end)
             ELSE FindScenes(s, i + 1)

\* Scenes kept by number, as a dict keyed by scene_number would keep them:
\* a later scene replaces the earlier one of the same number.
RECURSIVE LastOfEachNumber(_)
LastOfEachNumber(scenes) ==
    IF scenes = <<>> THEN <<>>
    ELSE IF \E k \in 2..Len(scenes) : scenes[k].scene_number = scenes[1].scene_number
    THEN LastOfEachNumber(Tail(scenes))
    ELSE <<Head(scenes)>> \o LastOfEachNumber(Tail(scenes))

\* parse_story_script collecting the scenes by number.
ParseStoryScriptByNumber(isStr, s) ==
    IF ~isStr THEN Raise("ValueError", "Input must be a string")
    ELSE IF Strip(s) = <<>> THEN Raise("ValueError", "Input cannot be empty")
    ELSE LET scene_list == LastOfEachNumber(FindScenes(s, 1))
         IN  IF scene_list = <<>>
             THEN Raise("ValueError", "No valid scenes found")
             ELSE Return(scene_list)

\* parse_story_script without lines 67-69.
ParseStoryScriptReturningEmpty(isStr, s) ==
    IF ~isStr THEN Raise("ValueError", "Input must be a string")
    ELSE IF Strip(s) = <<>> THEN Raise("ValueError", "Input cannot be empty")
    ELSE Return(FindScenes(s, 1))

ParseStoryScriptOf(isStr, s) ==
    IF ~isStr THEN Raise("ValueError", "Input must be a string")
    ELSE IF Strip(s) = <<>> THEN Raise("ValueError", "Input cannot be empty")
    ELSE LET scene_list == FindScenes(s, 1)
         IN  IF scene_list = <<>>
             THEN Raise("ValueError", "No valid scenes found in the script. Scenes should be marked with 'Scene X:'")
             ELSE Return(scene_list)

\* The pieces the scripts of the model are put together from.
StoryPieces ==
    { <<"S", "c", "e", "n", "e", " ", "1", ":">>,
      <<"S", "c", "e", "n", "e", " ", "2", ":">>,
      <<"S", "c", "e", "n", "e", " ">>,
      <<"1", ":">>,
      <<"2">>,
      <<" ", "A", "\n">>,
      <<" ", "B">>,
      <<"x", "\n", "y">>,
      <<"\n">> }

StoryScripts ==
    { Flatten(ps) : ps \in UNION { [1..n -> StoryPieces] : n \in 0..MaxPieces } }

InitStory ==
    /\ pc = "story_ready"
    /\ IdleGeom
    /\ IdleSrt
    /\ IdleTools
    /\ \/ story_is_str = TRUE /\ story_script \in StoryScripts
       \/ story_is_str = FALSE /\ story_script = <<>>     \* None, a number, ...
    /\ story_result = NoValue

ParseStoryScript ==
    /\ pc = "story_ready"
    /\ story_result' = ParseStoryScriptOf(story_is_str, story_script)
    /\ pc' = "story_done"
    /\ UNCHANGED <<story_is_str, story_script>>
    /\ UNCHANGED <<geomVars, srtVars, toolVars>>

NextStory == ParseStoryScript

SpecStory == InitStory /\ [][NextStory]_vars

(***************************************************************************)
(* SubtitleTranslator.parse_srt and save_srt                               *)
(***************************************************************************)
NewLine == <<"\n">>
Arrow == <<"-", "-", ">">>
ArrowSep == <<" ", "-", "-", ">", " ">>

\* First index >= i at which s has the literal lit; 0 if there is none.
RECURSIVE FindLiteral(_, _, _)
FindLiteral(s, i, lit) ==
    IF i + Len(lit) - 1 > Len(s) THEN 0
    ELSE IF HasLiteral(s, i, lit) THEN i
    ELSE FindLiteral(s, i + 1, lit)

\* str.split(lit)
RECURSIVE SplitLiteral(_, _)
SplitLiteral(s, lit) ==
    LET k == FindLiteral(s, 1, lit)
    IN  IF k = 0 THEN <<s>>
        ELSE <<SubSeq(s, 1, k - 1)>>
             \o SplitLiteral(SubSeq(s, k + Len(lit), Len(s)), lit)

\* sep.join(parts)
RECURSIVE JoinWith(_, _)
JoinWith(parts, sep) ==
    IF parts = <<>> THEN <<>>
    ELSE IF Len(parts) = 1 THEN parts[1]
    ELSE parts[1] \o sep \o JoinWith(Tail(parts), sep)

\* re.split(r'\n\n+', s): cut at every run of two or more newlines.
RECURSIVE SplitBlankLines(_)
SplitBlankLines(s) ==
    LET k == FindLiteral(s, 1, NewLine \o NewLine)
    IN  IF k = 0 THEN <<s>>
        ELSE <<SubSeq(s, 1, k - 1)>>
             \o SplitBlankLines(SubSeq(s, SkipChars(s, k, {"\n"}), Len(s)))

\* re.match(r'^\d+\s*$', x)
IsNumberLine(x) ==
    LET de == SkipChars(x, 1, Digits)
        se == SkipChars(x, de, Whitespace)
    IN  de > 1 /\ se = Len(x) + 1

\* int(x) of a str: surrounding whitespace and one sign are accepted
\* (the underscores int() allows between digits are not in the alphabet).
IntOfStr(x) ==
    LET t == Strip(x)
        signed == t # <<>> /\ t[1] \in {"+", "-"}
        body == IF signed THEN Tail(t) ELSE t
        ok == body # <<>> /\ \A i \in 1..Len(body) : IsDigit(body[i])
    IN  [ok |-> ok,
         val |-> IF ~ok THEN 0
                 ELSE IF signed /\ t[1] = "-" THEN 0 - DigitsToInt(body)
                 ELSE DigitsToInt(body)]

\* \d{2}:\d{2}:\d{2},\d{3}  with "d" for \d
TimestampPattern == <<"d", "d", ":", "d", "d", ":", "d", "d", ",", "d", "d", "d">>

TimestampAt(s, i) ==
    /\ i + Len(TimestampPattern) - 1 <= Len(s)
    /\ \A k \in 1..Len(TimestampPattern) :
          IF TimestampPattern[k] = "d" THEN IsDigit(s[i + k - 1])
          ELSE s[i + k - 1] = TimestampPattern[k]

\* The timing pattern of line 101.
TimingMatches(line) ==
    LET a == SkipChars(line, 1 + Len(TimestampPattern), Whitespace)
        b == SkipChars(line, a + Len(Arrow), Whitespace)
    IN  /\ TimestampAt(line, 1)
        /\ HasLiteral(line, a, Arrow)
        /\ TimestampAt(line, b)
        /\ b + Len(TimestampPattern) = Len(line) + 1

MinBlockLines == 3

\* Line 92.
BlockLines(block) == SplitLiteral(Strip(block), NewLine)

\* Lines 96-115 for one block of at least three lines.  Every ValueError of
\* the try body is caught at line 114 and replaced by the one of line 115.
ParseBlock(block) ==
    LET lines == BlockLines(block)
        index == IntOfStr(lines[1])
        timing == lines[2]
        parts == SplitLiteral(timing, ArrowSep)
        InBlock(ctx) ==
            RaiseFrom("ValueError", "Invalid SRT format in block: {block}", block, ctx)
    IN  IF ~index.ok
        THEN InBlock(Raise("ValueError", "invalid literal for int() with base 10"))
        ELSE IF ~TimingMatches(timing)
        THEN InBlock(RaiseFrom("ValueError", "Invalid timing format in block {index}",
                               index.val, NoValue))
        ELSE IF Len(parts) # 2
        THEN InBlock(Raise("ValueError", "not enough values to unpack"))
        ELSE Return([index |-> index.val,
                     start_time |-> Strip(parts[1]),
                     end_time |-> Strip(parts[2]),
                     text |-> Strip(JoinWith(SubSeq(lines, 3, Len(lines)), <<" ">>))])

\* The loop with a failing block ending it quietly: what was parsed so far
\* is returned.
RECURSIVE ParseBlocksKeepingPartial(_, _)
ParseBlocksKeepingPartial(blocks, entries) ==
    IF blocks = <<>> THEN Return(entries)
    ELSE IF Len(BlockLines(Head(blocks))) < MinBlockLines
    THEN ParseBlocksKeepingPartial(Tail(blocks), entries)
    ELSE LET r == ParseBlock(Head(blocks))
         IN  IF r.raised THEN Return(entries)
             ELSE ParseBlocksKeepingPartial(Tail(blocks), Append(entries, r.value))

\* The loop with "break" for the "continue" of line 94.
RECURSIVE ParseBlocksStoppingAtShort(_, _)
ParseBlocksStoppingAtShort(blocks, entries) ==
    IF blocks = <<>> THEN Return(entries)
    ELSE IF Len(BlockLines(Head(blocks))) < MinBlockLines
    THEN Return(entries)
    ELSE LET r == ParseBlock(Head(blocks))
         IN  IF r.raised THEN r
             ELSE ParseBlocksStoppingAtShort(Tail(blocks), Append(entries, r.value))

\* The loop of lines 91-115: entries is the list built so far.
RECURSIVE ParseBlocks(_, _)
ParseBlocks(blocks, entries) ==
    IF blocks = <<>> THEN Return(entries)
    ELSE IF Len(BlockLines(Head(blocks))) < MinBlockLines
    THEN ParseBlocks(Tail(blocks), entries)
    ELSE LET r == ParseBlock(Head(blocks))
         IN  IF r.raised THEN r
             ELSE ParseBlocks(Tail(blocks), Append(entries, r.value))

\* Lines 88-89.
\* HasSubtitleNumber looking at the first block only.
HasSubtitleNumberInFirstBlock(blocks) ==
    IsNumberLine(Strip(SplitLiteral(blocks[1], NewLine)[1]))

HasSubtitleNumber(blocks) ==
    \E k \in 1..Len(blocks) : IsNumberLine(Strip(SplitLiteral(blocks[k], NewLine)[1]))

\* parse_srt without the 'not srt_content.strip()' of line 81.
ParseSrtWithoutBlankCheck(isStr, content) ==
    IF ~isStr
    THEN Raise("ValueError", "Invalid SRT content: must be a non-empty string")
    ELSE LET blocks == SplitBlankLines(Strip(content))
         IN  IF ~HasSubtitleNumber(blocks)
             THEN Raise("ValueError", "Invalid SRT format: missing subtitle numbers")
             ELSE ParseBlocks(blocks, <<>>)

ParseSrtOf(isStr, content) ==
    IF ~isStr \/ Strip(content) = <<>>
    THEN Raise("ValueError", "Invalid SRT content: must be a non-empty string")
    ELSE LET blocks == SplitBlankLines(Strip(content))
         IN  IF ~HasSubtitleNumber(blocks)
             THEN Raise("ValueError", "Invalid SRT format: missing subtitle numbers")
             ELSE ParseBlocks(blocks, <<>>)

DigitChar(d) == CHOOSE c \in Digits : DigitVal(c) = d

\* str(n) of an int
RECURSIVE StrOfInt(_)
StrOfInt(n) ==
    IF n < 0 THEN <<"-">> \o StrOfInt(0 - n)
    ELSE IF n < 10 THEN <<DigitChar(n)>>
    ELSE StrOfInt(n \div 10) \o <<DigitChar(n % 10)>>

\* The writes without the blank line that ends an entry.
WriteEntryNoBlankLine(e) ==
    StrOfInt(e.index) \o NewLine
    \o e.start_time \o ArrowSep \o e.end_time \o NewLine
    \o e.text \o NewLine

\* The three writes of lines 251-253.
WriteEntry(e) ==
    StrOfInt(e.index) \o NewLine
    \o e.start_time \o ArrowSep \o e.end_time \o NewLine
    \o e.text \o NewLine \o NewLine

\* What save_srt writes for a list of entries (lines 249-253).
RECURSIVE SaveSrtOf(_)
SaveSrtOf(entries) ==
    IF entries = <<>> THEN <<>>
    ELSE WriteEntry(Head(entries)) \o SaveSrtOf(Tail(entries))

(***************************************************************************)
(* The SRT texts of the model: blocks of a first line, a timing line and   *)
(* text lines, separated by one or two blank lines.                        *)
(***************************************************************************)
TsA == <<"0", "0", ":", "0", "0", ":", "0", "1", ",", "0", "0", "0">>
TsB == <<"0", "0", ":", "0", "0", ":", "0", "2", ",", "5", "0", "0">>
TsNoMs == <<"0", "0", ":", "0", "0", ":", "0", "1">>
WideArrow == <<" ", " ", "-", "-", ">", " ", " ">>

NumberLines == { <<"1">>, <<"1", "2">> }
FirstLines == NumberLines \cup { <<"x">> }

GoodTiming == [start |-> TsA, sep |-> ArrowSep, end |-> TsB]
Timings ==
    { GoodTiming,
      [start |-> TsNoMs, sep |-> ArrowSep, end |-> TsB],   \* no milliseconds
      [start |-> TsA, sep |-> Arrow, end |-> TsB],         \* no spaces
      [start |-> TsA, sep |-> WideArrow, end |-> TsB] }    \* two spaces

Hi == <<"H", "i">>
Yo == <<"y", "o">>

\* timing is <<>> (no second line) or <<t>>.
SrtBlocks ==
    { [first |-> f, timing |-> <<>>, texts |-> <<>>] : f \in FirstLines }
    \cup { [first |-> f, timing |-> <<t>>, texts |-> <<Hi>>] :
              f \in FirstLines, t \in Timings }
    \cup { [first |-> f, timing |-> <<GoodTiming>>, texts |-> x] :
              f \in NumberLines, x \in { <<>>, <<Hi, Yo>>, <<Hi, <<" ">>>> , << <<" ">> >> } }

TimingLine(t) == t.start \o t.sep \o t.end

LinesOfBlock(b) ==
    <<b.first>> \o [k \in 1..Len(b.timing) |-> TimingLine(b.timing[k])] \o b.texts

SrtDocs ==
    { [blocks |-> bs, gap |-> g] :
        bs \in UNION { [1..n -> SrtBlocks] : n \in 0..MaxBlocks },
        g \in { NewLine \o NewLine, NewLine \o NewLine \o NewLine } }

TextOfDoc(d) ==
    JoinWith([k \in 1..Len(d.blocks) |-> JoinWith(LinesOfBlock(d.blocks[k]), NewLine)],
             d.gap)

\* Texts of nothing but whitespace.
BlankBlock == [first |-> <<" ">>, timing |-> <<>>, texts |-> <<>>]
BlankDocs ==
    { [blocks |-> bs, gap |-> NewLine \o NewLine] :
        bs \in { <<BlankBlock>>, <<BlankBlock, BlankBlock>> } }

NoDoc == [blocks |-> <<>>, gap |-> NewLine \o NewLine]

InitSrt ==
    /\ pc = "srt_ready"
    /\ IdleGeom
    /\ IdleStory
    /\ IdleTools
    /\ \/ srt_is_str = TRUE /\ srt_doc \in SrtDocs \cup BlankDocs
       \/ srt_is_str = FALSE /\ srt_doc = NoDoc       \* None, a number, ...
    /\ srt_content = TextOfDoc(srt_doc)
    /\ srt_result = NoValue
    /\ entries_in = <<>>
    /\ srt_file = NoValue

ParseSrt ==
    /\ pc = "srt_ready"
    /\ srt_result' = ParseSrtOf(srt_is_str, srt_content)
    /\ pc' = "srt_done"
    /\ UNCHANGED <<srt_doc, srt_is_str, srt_content, entries_in, srt_file>>
    /\ UNCHANGED <<geomVars, storyVars, toolVars>>

NextSrt == ParseSrt

SpecSrt == InitSrt /\ [][NextSrt]_vars

\* Both parsers, one call of either.
InitParsers == InitStory \/ InitSrt
NextParsers == ParseStoryScript \/ ParseSrt
SpecParsers == InitParsers /\ [][NextParsers]_vars

(***************************************************************************)
(* save_srt followed by parse_srt of the file it wrote.                    *)
(***************************************************************************)
EntryIndexes == { 1, 12, -1 }
EntryTexts ==
    { Hi, <<>>, Hi \o NewLine \o Yo, <<" ">> \o Hi, Hi \o <<" ">> \o Yo }

SubtitleEntries ==
    [index : EntryIndexes, start_time : {TsA}, end_time : {TsB}, text : EntryTexts]

InitRoundTrip ==
    /\ pc = "save_ready"
    /\ IdleGeom
    /\ IdleStory
    /\ IdleTools
    /\ entries_in \in UNION { [1..n -> SubtitleEntries] : n \in 0..MaxEntries }
    /\ srt_file = NoValue
    /\ srt_doc = NoDoc
    /\ srt_is_str = TRUE
    /\ srt_content = <<>>
    /\ srt_result = NoValue

\* save_srt: lines 249-253.
SaveSrt ==
    /\ pc = "save_ready"
    /\ srt_file' = SaveSrtOf(entries_in)
    /\ pc' = "saved"
    /\ UNCHANGED <<srt_doc, srt_is_str, srt_content, srt_result, entries_in>>
    /\ UNCHANGED <<geomVars, storyVars, toolVars>>

\* Reading the file back and parsing it (process_subtitles lines 275-278).
ParseSavedSrt ==
    /\ pc = "saved"
    /\ srt_content' = srt_file
    /\ srt_result' = ParseSrtOf(TRUE, srt_file)
    /\ pc' = "reparsed"
    /\ UNCHANGED <<srt_doc, srt_is_str, entries_in, srt_file>>
    /\ UNCHANGED <<geomVars, storyVars, toolVars>>

NextRoundTrip == SaveSrt \/ ParseSavedSrt

SpecRoundTrip == InitRoundTrip /\ [][NextRoundTrip]_vars

\* The calls the test suite makes on its 400x300 fixture: test_image_resizing,
\* test_video_resizing and test_fill_color (max_dimension 1920) and
\* test_max_dimension_constraint (max_dimension 800).
TestedCalls ==
    { <<400, 300, r, 1920>> : r \in { <<16, 9>>, <<9, 16>>, <<1, 1>> } }
        \cup { <<400, 300, <<16, 9>>, 800>> }

InitGeom ==
    /\ pc = "geom_ready"
    /\ IdleStory
    /\ IdleSrt
    /\ IdleTools
    /\ \/ /\ current_width \in 1..MaxSize
          /\ current_height \in 1..MaxSize
          /\ target_ratio \in COMMON_RATIOS
          /\ max_dimension \in 1..MaxDimension
       \/ \E call \in TestedCalls :
              /\ current_width = call[1]
              /\ current_height = call[2]
              /\ target_ratio = call[3]
              /\ max_dimension = call[4]
    /\ dims = NoValue
    /\ paste = NoValue

\* A direct call of _calculate_dimensions.
CalculateDimensions ==
    /\ pc = "geom_ready"
    /\ dims' = CalculateDimensionsOf(current_width, current_height, target_ratio, max_dimension)
    /\ pc' = "geom_calculated"
    /\ UNCHANGED <<current_width, current_height, target_ratio, max_dimension, paste>>
    /\ UNCHANGED <<storyVars, srtVars, toolVars>>

\* resize_image on an existing image with a supported ratio: lines 128-146.
ResizeImage ==
    /\ pc = "geom_ready"
    /\ LET d == CalculateDimensionsOf(current_width, current_height, target_ratio, max_dimension)
       IN  /\ dims' = d
           /\ paste' = IF d.raised THEN NoValue ELSE PastePosition(d.value)
    /\ pc' = "geom_resized"
    /\ UNCHANGED <<current_width, current_height, target_ratio, max_dimension>>
    /\ UNCHANGED <<storyVars, srtVars, toolVars>>

NextGeom == CalculateDimensions \/ ResizeImage

SpecGeom == InitGeom /\ [][NextGeom]_vars

(***************************************************************************)
(* StoryEnhancer.  A scene description is a str of characters, as          *)
(* parse_story_script returns it; the text an enhancement adds to it is    *)
(* kept in the pieces the f-string puts together (line breaks as single    *)
(* characters, the fixed words and the names as whole strings).            *)
(***************************************************************************)
\* Lines 32-57 (the payoff_elements of lines 60-89 are never read).
EMOTIONAL_ELEMENTS ==
    <<
       [name |-> "unexpected_kindness",
        description |-> "A sudden act of kindness from an unexpected source",
        intensity |-> 8,
        trigger_words |->
          << <<"a", "l", "o", "n", "e">>,
             <<"s", "t", "r", "u", "g", "g", "l", "e">>,
             <<"d", "i", "f", "f", "i", "c", "u", "l", "t">>,
             <<"h", "e", "l", "p">> >>],
       [name |-> "redemption",
        description |-> "A character overcomes their past mistakes",
        intensity |-> 9,
        trigger_words |->
          << <<"m", "i", "s", "t", "a", "k", "e">>,
             <<"r", "e", "g", "r", "e", "t">>,
             <<"c", "h", "a", "n", "g", "e">>,
             <<"b", "e", "t", "t", "e", "r">> >>],
       [name |-> "sacrifice",
        description |-> "Someone gives up something important for others",
        intensity |-> 10,
        trigger_words |->
          << <<"i", "m", "p", "o", "r", "t", "a", "n", "t">>,
             <<"g", "i", "v", "e", " ", "u", "p">>,
             <<"o", "t", "h", "e", "r", "s">>,
             <<"s", "a", "v", "e">> >>],
       [name |-> "revelation",
        description |-> "A surprising truth is revealed that changes everything",
        intensity |-> 9,
        trigger_words |->
          << <<"t", "r", "u", "t", "h">>,
             <<"d", "i", "s", "c", "o", "v", "e", "r">>,
             <<"r", "e", "a", "l", "i", "z", "e">>,
             <<"s", "e", "c", "r", "e", "t">> >>]
    >>

PLOT_TWISTS ==
    <<
       [name |-> "hidden_connection",
        description |-> "Characters discover they're connected in unexpected ways",
        impact |-> 8,
        setup_elements |->
          << <<"m", "y", "s", "t", "e", "r", "i", "o", "u", "s", " ", "p", "a", "s", "t">>,
             <<"c", "o", "i", "n", "c", "i", "d", "e", "n", "c", "e">>,
             <<"s", "h", "a", "r", "e", "d", " ", "h", "i", "s", "t", "o", "r", "y">> >>],
       [name |-> "moral_gray_area",
        description |-> "The clear distinction between right and wrong becomes blurred",
        impact |-> 9,
        setup_elements |->
          << <<"e", "t", "h", "i", "c", "a", "l", " ", "d", "i", "l", "e", "m", "m", "a">>,
             <<"d", "i", "f", "f", "i", "c", "u", "l", "t", " ", "c", "h", "o", "i", "c", "e">>,
             <<"c", "o", "n", "f", "l", "i", "c", "t", "i", "n", "g", " ", "l", "o", "y", "a", "l", "t", "i", "e", "s">> >>],
       [name |-> "time_revelation",
        description |-> "Events are not in the sequence they appear to be",
        impact |-> 8,
        setup_elements |->
          << <<"m", "y", "s", "t", "e", "r", "i", "o", "u", "s", " ", "t", "i", "m", "e", "l", "i", "n", "e">>,
             <<"i", "n", "c", "o", "n", "s", "i", "s", "t", "e", "n", "t", " ", "m", "e", "m", "o", "r", "i", "e", "s">>,
             <<"d", "é", "j", "à", " ", "v", "u">> >>],
       [name |-> "identity_subversion",
        description |-> "A character is not who they appear to be",
        impact |-> 9,
        setup_elements |->
          << <<"s", "u", "b", "t", "l", "e", " ", "h", "i", "n", "t", "s">>,
             <<"i", "n", "c", "o", "n", "s", "i", "s", "t", "e", "n", "t", " ", "b", "e", "h", "a", "v", "i", "o", "r">>,
             <<"h", "i", "d", "d", "e", "n", " ", "a", "g", "e", "n", "d", "a">> >>]
    >>

UpperCase == <<"A", "B", "C", "D", "E", "F", "G", "H", "I", "J", "K", "L", "M",
               "N", "O", "P", "Q", "R", "S", "T", "U", "V", "W", "X", "Y", "Z">>
LowerCase == <<"a", "b", "c", "d", "e", "f", "g", "h", "i", "j", "k", "l", "m",
               "n", "o", "p", "q", "r", "s", "t", "u", "v", "w", "x", "y", "z">>

\* str.lower()
Lower(s) ==
    [k \in 1..Len(s) |->
        IF \E i \in 1..Len(UpperCase) : UpperCase[i] = s[k]
        THEN LowerCase[CHOOSE i \in 1..Len(UpperCase) : UpperCase[i] = s[k]]
        ELSE s[k]]

\* lit in s
Contains(s, lit) == \E i \in 1..Len(s) : HasLiteral(s, i, lit)

\* analyze_emotional_potential
AnalyzeEmotionalPotential(scene) ==
    LET description == Lower(scene.description)
        Relevant(element) ==
            \E k \in 1..Len(element.trigger_words) :
                Contains(description, element.trigger_words[k])
    IN  SelectSeq(EMOTIONAL_ELEMENTS, Relevant)

\* identify_plot_twist_opportunities
IdentifyPlotTwistOpportunities(scenes) ==
    LET SetsUp(twist, scene) ==
            \E k \in 1..Len(twist.setup_elements) :
                Contains(Lower(scene.description), twist.setup_elements[k])
        Potential(twist) ==
            Cardinality({ k \in 1..Len(scenes) : SetsUp(twist, scenes[k]) }) >= 2
    IN  SelectSeq(PLOT_TWISTS, Potential)

\* Lines 172-176.
EmotionalBlock(element) ==
    <<"\n", "\n", "[Emotional Enhancement - ", element.name, "]:", "\n",
      element.description>>

\* Lines 210-215.
PlotTwistBlock(twist) ==
    <<"\n", "\n", "[Plot Twist - ", twist.name, "]:", "\n", twist.description, "\n",
      "This revelation changes everything that came before...">>

\* enhance_scene: one outcome for each element random.choice can pick.
EnhanceSceneOutcomes(scene, emotional_elements) ==
    IF emotional_elements = <<>> THEN { scene }
    ELSE { [scene_number |-> scene.scene_number,
            description |-> scene.description \o EmotionalBlock(element)] :
              element \in Range(emotional_elements) }

\* random.randint(a, b): the values it can return; none is a ValueError.
RandInt(a, b) == a..b

\* add_plot_twist: the outcomes of the call, one for each pick of
\* random.choice and random.randint.  scenes is the caller's list after the
\* call: line 210 writes into it (twist_index counts from 0).
AddPlotTwistOutcomes(scenes, twist) ==
    IF scenes = <<>> THEN { [result |-> Return(scenes), scenes |-> scenes] }
    ELSE LET potential_twists == IdentifyPlotTwistOpportunities(scenes)
             twists == IF twist # NoValue THEN { twist.value }
                       ELSE IF potential_twists # <<>> THEN Range(potential_twists)
                       ELSE Range(PLOT_TWISTS)
             picks == RandInt(0, Len(scenes) \div 2 - 1)
         IN  IF picks = {}
             THEN { [result |-> Raise("ValueError", "empty range for randrange()"),
                     scenes |-> scenes] }
             ELSE { LET twist_index == Len(scenes) \div 2 + r
                        twisted == [scenes EXCEPT ![twist_index + 1].description =
                                       @ \o PlotTwistBlock(chosen)]
                    IN  [result |-> Return(twisted), scenes |-> twisted] :
                      chosen \in twists, r \in picks }

\* Lines 233-237: the lists the loop can build.
RECURSIVE EnhanceEachOutcomes(_)
EnhanceEachOutcomes(scenes) ==
    IF scenes = <<>> THEN { <<>> }
    ELSE { <<first>> \o rest :
             first \in EnhanceSceneOutcomes(Head(scenes), AnalyzeEmotionalPotential(Head(scenes))),
             rest \in EnhanceEachOutcomes(Tail(scenes)) }

\* Lines 243-245.
RECURSIVE ScriptOf(_)
ScriptOf(scenes) ==
    IF scenes = <<>> THEN <<>>
    ELSE <<"\n">> \o SceneWord \o <<" ">> \o StrOfInt(Head(scenes).scene_number)
             \o <<":", "\n">> \o Head(scenes).description \o <<"\n">>
             \o ScriptOf(Tail(scenes))

\* enhance_story: the outcomes of the call.
EnhanceStoryOutcomes(script) ==
    LET parsed == ParseStoryScriptOf(TRUE, script)
    IN  IF parsed.raised THEN { parsed }
        ELSE { IF twisted.result.raised THEN twisted.result
               ELSE Return(Strip(ScriptOf(twisted.result.value))) :
                 twisted \in UNION { AddPlotTwistOutcomes(enhanced_scenes, NoValue) :
                                       enhanced_scenes \in EnhanceEachOutcomes(parsed.value) } }

\* The scenes and the scripts of the model.
EnhDescriptions ==
    { <<"h", "i">>,
      <<"a", " ", "c", "o", "i", "n", "c", "i", "d", "e", "n", "c", "e">>,
      <<"S", "h", "a", "r", "e", "d", " ", "H", "i", "s", "t", "o", "r", "y">> }
SceneLists ==
    UNION { { [k \in 1..n |-> [scene_number |-> k, description |-> d[k]]] :
                d \in [1..n -> EnhDescriptions] } : n \in 0..MaxScenes }
EnhPieces ==
    { <<"S", "c", "e", "n", "e", " ", "1", ":">>,
      <<"S", "c", "e", "n", "e", " ", "2", ":">>,
      <<" ", "H", "e", "l", "p">>,
      <<" ", "c", "o", "i", "n", "c", "i", "d", "e", "n", "c", "e">>,
      <<" ", "x", "\n">> }
EnhScripts ==
    { Flatten(ps) : ps \in UNION { [1..n -> EnhPieces] : n \in 0..MaxPieces } }

InitEnhancer ==
    /\ pc = "enh_ready"
    /\ IdleParsers
    /\ IdleConverter
    /\ IdleCharacter
    /\ IdleMore
    /\ \/ /\ enh_scenes \in SceneLists
          /\ enh_twist \in {NoValue} \cup { Given(PLOT_TWISTS[k]) : k \in 1..Len(PLOT_TWISTS) }
          /\ enh_script = <<>>
       \/ /\ enh_scenes = <<>>
          /\ enh_twist = NoValue
          /\ enh_script \in EnhScripts
    /\ enh_result = NoValue

\* enhancer.add_plot_twist(scenes, twist)
AddPlotTwist ==
    /\ pc = "enh_ready"
    /\ \E done \in AddPlotTwistOutcomes(enh_scenes, enh_twist) :
          /\ enh_result' = done.result
          /\ enh_scenes' = done.scenes
    /\ pc' = "enh_twisted"
    /\ UNCHANGED <<enh_twist, enh_script>>
    /\ UNCHANGED <<parserVars, convVars, charVars, moreVars>>

\* enhancer.enhance_story(story_script)
EnhanceStory ==
    /\ pc = "enh_ready"
    /\ enh_result' \in EnhanceStoryOutcomes(enh_script)
    /\ pc' = "enh_story_done"
    /\ UNCHANGED <<enh_scenes, enh_twist, enh_script>>
    /\ UNCHANGED <<parserVars, convVars, charVars, moreVars>>

NextEnhancer == AddPlotTwist \/ EnhanceStory

SpecEnhancer == InitEnhancer /\ [][NextEnhancer]_vars

(***************************************************************************)
(* VideoConverter.  A file name or path is the sequence of its dot-free    *)
(* components ('out.avi' is <<"out", "avi">>); files maps the names in      *)
(* output_dir to what they hold: the number of the call that wrote the     *)
(* file (0: before any call) and whether ffmpeg finished writing it.       *)
(***************************************************************************)
FORMAT_SETTINGS ==
    [fmt \in {"mp4", "avi", "mov", "mkv", "webm"} |->
        CASE fmt = "mp4" ->
               [container |-> "mp4", video_codec |-> "libx264", audio_codec |-> "aac",
                extra_args |-> <<"-preset", "medium", "-crf", "23">>]
          [] fmt = "avi" ->
               [container |-> "avi", video_codec |-> "mpeg4", audio_codec |-> "mp3",
                extra_args |-> <<"-q:v", "6">>]
          [] fmt = "mov" ->
               [container |-> "mov", video_codec |-> "libx264", audio_codec |-> "aac",
                extra_args |-> <<"-preset", "medium", "-crf", "23">>]
          [] fmt = "mkv" ->
               [container |-> "matroska", video_codec |-> "libx264", audio_codec |-> "aac",
                extra_args |-> <<"-preset", "medium", "-crf", "23">>]
          [] fmt = "webm" ->
               [container |-> "webm", video_codec |-> "libvpx-vp9", audio_codec |-> "libopus",
                extra_args |-> <<"-b:v", "0", "-crf", "30", "-row-mt", "1">>]]

\* _get_quality_settings
GetQualitySettings(quality, output_format) ==
    LET mp4 == [q \in {"low", "medium", "high"} |->
                   CASE q = "low" -> <<"-preset", "ultrafast", "-crf", "28">>
                     [] q = "medium" -> <<"-preset", "medium", "-crf", "23">>
                     [] q = "high" -> <<"-preset", "slow", "-crf", "18">>]
        webm == [q \in {"low", "medium", "high"} |->
                   CASE q = "low" -> <<"-crf", "35">>
                     [] q = "medium" -> <<"-crf", "30">>
                     [] q = "high" -> <<"-crf", "25">>]
    IN  IF quality \notin {"low", "medium", "high"} THEN <<>>
        ELSE IF output_format \in {"mov", "mkv"} THEN mp4[quality]
        ELSE IF output_format = "mp4" THEN mp4[quality]
        ELSE IF output_format = "webm" THEN webm[quality]
        ELSE <<>>

\* Path.stem: the name without its last suffix.
Stem(path) == IF Len(path) > 1 THEN SubSeq(path, 1, Len(path) - 1) ELSE path

\* Lines 123-128.
OutputFilenameOf(input_path, output_format, output_filename, unique_id) ==
    IF output_filename = NoValue
    THEN LET stem == Stem(input_path)
         IN  SubSeq(stem, 1, Len(stem) - 1)
                 \o <<stem[Len(stem)] \o "_" \o unique_id, output_format>>
    ELSE LET name == output_filename.value
         IN  IF ~(Len(name) >= 2 /\ name[Len(name)] = output_format)
             THEN Append(name, output_format)
             ELSE name

\* Lines 146-162.
BuildCommand(input_path, settings, quality_settings, overwrite, output_path) ==
    <<"ffmpeg", "-i", input_path, "-c:v", settings.video_codec, "-c:a", settings.audio_codec>>
        \o settings.extra_args
        \o quality_settings
        \o <<IF overwrite THEN "-y" ELSE "-n", output_path>>

WriteFile(fs, name, content) ==
    [n \in DOMAIN fs \cup {name} |-> IF n = name THEN content ELSE fs[n]]

\* The ffmpeg process of lines 166-171.  With -n it leaves an existing
\* output alone and fails; otherwise it writes the output, or fails and
\* leaves nothing or an unfinished file behind.
RunFfmpeg(fs, cmd, env) ==
    LET flag == cmd[Len(cmd) - 1]
        output_path == cmd[Len(cmd)]
    IN  IF flag = "-n" /\ output_path \in DOMAIN fs
        THEN [ok |-> FALSE, files |-> fs]
        ELSE IF env.ffmpeg = "done"
        THEN [ok |-> TRUE,
              files |-> WriteFile(fs, output_path, [call |-> env.call, complete |-> TRUE])]
        ELSE IF env.ffmpeg = "failed_midway"
        THEN [ok |-> FALSE,
              files |-> WriteFile(fs, output_path, [call |-> env.call, complete |-> FALSE])]
        ELSE [ok |-> FALSE, files |-> fs]

\* The input files that exist.
InputFiles == { <<"test_video", "mp4">> }

\* convert without the check of lines 133-137.
ConvertIgnoringExisting(fs, call, env) ==
    IF call.input_path \notin InputFiles
    THEN [result |-> RaiseFrom("FileNotFoundError", "Input file not found: {input_path}",
                               call.input_path, NoValue),
          files |-> fs, log |-> <<>>]
    ELSE IF call.output_format \notin DOMAIN FORMAT_SETTINGS
    THEN [result |-> RaiseFrom("ValueError", "Unsupported format: {output_format}. Supported formats: mp4, avi, mov, mkv, webm",
                               call.output_format, NoValue),
          files |-> fs, log |-> <<>>]
    ELSE LET output_path == OutputFilenameOf(call.input_path, call.output_format,
                                             call.output_filename, env.unique_id)
             cmd == BuildCommand(call.input_path, FORMAT_SETTINGS[call.output_format],
                                 GetQualitySettings(call.quality, call.output_format),
                                 call.overwrite, output_path)
             run == RunFfmpeg(fs, cmd, env)
         IN  [result |-> IF run.ok THEN Return(output_path)
                         ELSE Raise("RuntimeError", "FFmpeg conversion failed: {error_msg}"),
              files |-> run.files, log |-> <<cmd>>]

\* convert: what it raises or returns, the files it leaves and the commands
\* it ran.
ConvertOf(fs, call, env) ==
    IF call.input_path \notin InputFiles
    THEN [result |-> RaiseFrom("FileNotFoundError", "Input file not found: {input_path}",
                               call.input_path, NoValue),
          files |-> fs, log |-> <<>>]
    ELSE IF call.output_format \notin DOMAIN FORMAT_SETTINGS
    THEN [result |-> RaiseFrom("ValueError", "Unsupported format: {output_format}. Supported formats: mp4, avi, mov, mkv, webm",
                               call.output_format, NoValue),
          files |-> fs, log |-> <<>>]
    ELSE LET output_path == OutputFilenameOf(call.input_path, call.output_format,
                                             call.output_filename, env.unique_id)
         IN  IF output_path \in DOMAIN fs /\ ~call.overwrite
             THEN [result |-> RaiseFrom("FileExistsError", "Output file already exists: {output_path}. Use overwrite=True to force conversion.",
                                        output_path, NoValue),
                   files |-> fs, log |-> <<>>]
             ELSE LET cmd == BuildCommand(call.input_path, FORMAT_SETTINGS[call.output_format],
                                          GetQualitySettings(call.quality, call.output_format),
                                          call.overwrite, output_path)
                      run == RunFfmpeg(fs, cmd, env)
                  IN  [result |-> IF run.ok THEN Return(output_path)
                                  ELSE Raise("RuntimeError", "FFmpeg conversion failed: {error_msg}"),
                       files |-> run.files, log |-> <<cmd>>]

\* The calls and the environments of the model.
ConvertCalls ==
    [input_path : { <<"test_video", "mp4">>, <<"nonexistent", "mp4">> },
     output_format : { "avi", "webm", "invalid_format" },
     output_filename : { NoValue, Given(<<"out">>), Given(<<"out", "avi">>) },
     quality : { "medium", "best" },
     overwrite : BOOLEAN]
UniqueIds == { "1a2b3c4d", "5e6f7a8b" }
FfmpegRuns == { "done", "failed", "failed_midway" }

\* VideoConverter(output_dir): the directory is new or already holds a file.
InitConverter ==
    /\ pc = "converter"
    /\ IdleParsers
    /\ IdleEnhancer
    /\ IdleCharacter
    /\ IdleMore
    /\ files \in { NoFiles,
                    WriteFile(NoFiles, <<"out", "avi">>, [call |-> 0, complete |-> TRUE]) }
    /\ conv_calls = 0
    /\ conv_call = NoValue
    /\ conv_result = NoValue
    /\ ffmpeg_log = <<>>

Convert ==
    /\ pc = "converter"
    /\ conv_calls < MaxConverts
    /\ \E call \in ConvertCalls, unique_id \in UniqueIds, ffmpeg \in FfmpegRuns :
          LET done == ConvertOf(files, call,
                                [unique_id |-> unique_id, ffmpeg |-> ffmpeg,
                                 call |-> conv_calls + 1])
          IN  /\ conv_call' = call
              /\ conv_result' = done.result
              /\ files' = done.files
              /\ ffmpeg_log' = done.log
    /\ conv_calls' = conv_calls + 1
    /\ UNCHANGED <<pc, parserVars, enhVars, charVars, moreVars>>

NextConverter == Convert

SpecConverter == InitConverter /\ [][NextConverter]_vars

(***************************************************************************)
(* Character                                                               *)
(***************************************************************************)
\* add_personality_trait appending whatever it is given.
AddPersonalityTraitAlways(traits, trait) == Append(traits, trait)

\* Lines 97-98.
AddPersonalityTraitOf(traits, trait) ==
    IF trait \notin Range(traits) THEN Append(traits, trait) ELSE traits

Traits == { "confident", "intelligent", "shy" }

\* Character(name): line 59.
InitCharacter ==
    /\ pc = "character"
    /\ IdleParsers
    /\ IdleEnhancer
    /\ IdleConverter
    /\ IdleMore
    /\ personality = <<>>
    /\ trait_calls = <<>>

AddPersonalityTrait ==
    /\ pc = "character"
    /\ Len(trait_calls) < MaxTraitCalls
    /\ \E trait \in Traits :
          /\ personality' = AddPersonalityTraitOf(personality, trait)
          /\ trait_calls' = Append(trait_calls, trait)
    /\ UNCHANGED <<pc, parserVars, enhVars, convVars, moreVars>>

NextCharacter == AddPersonalityTrait

SpecCharacter == InitCharacter /\ [][NextCharacter]_vars

(***************************************************************************)
(* Properties of _calculate_dimensions and resize_image (SpecGeom)         *)
(***************************************************************************)
GeomReturned == pc \in {"geom_calculated", "geom_resized"} /\ ~dims.raised

\* C1: the canvas pair is never smaller than the scaled pair
\* (target_width >= new_width and target_height >= new_height), so the
\* centering offsets of resize_image are never negative.
C1_CanvasCoversContent ==
    GeomReturned =>
        /\ dims.value.target_width >= dims.value.new_width
        /\ dims.value.target_height >= dims.value.new_height
        /\ (pc = "geom_resized" => paste.x >= 0 /\ paste.y >= 0)

\* C4: the scaled pair keeps the source aspect ratio up to one pixel of
\* rounding per dimension: some uniform scale k has |new_width - k*cw| <= 1
\* and |new_height - k*ch| <= 1.
C4_SourceAspectPreserved ==
    GeomReturned =>
        /\ (dims.value.new_width - 1) * current_height
              <= (dims.value.new_height + 1) * current_width
        /\ (dims.value.new_height - 1) * current_width
              <= (dims.value.new_width + 1) * current_height

\* C6: no returned dimension exceeds max_dimension: neither of the scaled
\* pair, nor of the canvas pair.
C6_WithinMaxDimension ==
    GeomReturned =>
        /\ dims.value.new_width <= max_dimension
        /\ dims.value.new_height <= max_dimension
        /\ dims.value.target_width <= max_dimension
        /\ dims.value.target_height <= max_dimension

\* C6 witness: a call whose content exceeded max_dimension in one dimension
\* only before lines 76-83 scaled it down to exactly max_dimension.
C6_ScaledDownWitness ==
    LET n == FitToRatio(current_width, current_height, target_ratio[1], target_ratio[2])
    IN  /\ GeomReturned
        /\ n.h > max_dimension
        /\ n.w <= max_dimension
        /\ dims.value.new_height = max_dimension
        /\ dims.value.new_width < n.w

\* |a - b| < c
Within(a, b, c) == a - b < c /\ b - a < c

\* C11: the canvas pair matches the requested ratio num:den up to rounding
\* of one dimension by less than one pixel (|target_width - target_height *
\* num/den| < 1 or |target_height - target_width * den/num| < 1); for the
\* tested 400x300 calls width/height is within 10% of num/den; and for 1:1
\* target_width = target_height exactly.
C11_CanvasMatchesRatio ==
    GeomReturned =>
        LET num == target_ratio[1]
            den == target_ratio[2]
            tw == dims.value.target_width
            th == dims.value.target_height
        IN  /\ \/ Within(tw * den, th * num, den)
               \/ Within(th * num, tw * den, num)
            /\ (<<current_width, current_height, target_ratio, max_dimension>> \in TestedCalls
                    => Within(10 * tw * den, 10 * th * num, th * num + 1))
            /\ (num = den => tw = th)

\* C11 witness: a canvas whose rounded dimension is not the exact quotient,
\* for a ratio other than 1:1.
C11_RoundedCanvasWitness ==
    /\ GeomReturned
    /\ target_ratio[1] # target_ratio[2]
    /\ dims.value.target_width * target_ratio[2]
           # dims.value.target_height * target_ratio[1]
    /\ dims.value.target_height > 0

\* C12: when the source aspect differs from the target ratio (400x300 to
\* 16:9 for one), the canvas is strictly larger than the scaled content along
\* at least one axis, so at least one centering offset of resize_image is
\* >= 1 and pixel (0, 0) of the output is fill color.
C12_PaddingWhenAspectsDiffer ==
    (/\ pc = "geom_resized"
     /\ ~dims.raised
     /\ current_width * target_ratio[2] # current_height * target_ratio[1])
        => /\ \/ dims.value.target_width > dims.value.new_width
              \/ dims.value.target_height > dims.value.new_height
           /\ (paste.x >= 1 \/ paste.y >= 1)

\* C13: for positive current_width, current_height and max_dimension and a
\* ratio of COMMON_RATIOS, _calculate_dimensions returns without raising and
\* all four returned dimensions are positive.
C13_ReturnsPositiveDims ==
    pc \in {"geom_calculated", "geom_resized"} =>
        /\ ~dims.raised
        /\ dims.value.new_width > 0
        /\ dims.value.new_height > 0
        /\ dims.value.target_width > 0
        /\ dims.value.target_height > 0

IsSpecExampleCall ==
    /\ current_width = 400
    /\ current_height = 300
    /\ target_ratio = <<16, 9>>
    /\ max_dimension = 1920

RECURSIVE Ascending(_)
Ascending(S) ==
    IF S = {} THEN <<>>
    ELSE LET m == CHOOSE x \in S : \A y \in S : x <= y
         IN  <<m>> \o Ascending(S \ {m})

\* The marker 'Scene' + whitespace + digits + ':' occupies s[i..c], with its
\* digits starting at d: stated directly, not by scanning.
MarkerSpans(s, i, d, c) ==
    /\ \A k \in (i + Len(SceneWord))..(d - 1) : IsSpace(s[k])
    /\ \A k \in d..(c - 1) : IsDigit(s[k])
    /\ s[c] = ":"

\* The markers of s in source order, each with the index it starts at, the
\* index of its colon and the integer written in it.
Markers(s) ==
    LET found ==
            { m \in [start : { i \in 1..Len(s) : HasLiteral(s, i, SceneWord) },
                     digit : 1..Len(s), colon : 1..Len(s)] :
                /\ m.start + Len(SceneWord) < m.digit
                /\ m.digit < m.colon
                /\ MarkerSpans(s, m.start, m.digit, m.colon) }
        starts == Ascending({ m.start : m \in found })
    IN  [k \in 1..Len(starts) |->
            LET m == CHOOSE x \in found : x.start = starts[k]
            IN  [start |-> m.start, colon |-> m.colon,
                 number |-> DigitsToInt(SubSeq(s, m.digit, m.colon - 1))]]

MarkerNumbersOf(ms) == [k \in 1..Len(ms) |-> ms[k].number]

\* The characters between the k-th marker and the next one (or the end).
TextAfterMarker(s, ms, k) ==
    Slice(s, ms[k].colon + 1, IF k < Len(ms) THEN ms[k + 1].start - 1 ELSE Len(s))

StoryReturned == pc = "story_done" /\ ~story_result.raised

SceneNumbers == [k \in 1..Len(story_result.value) |-> story_result.value[k].scene_number]

\* Strictly increasing maps from 1..n into 1..m: the ways to pick n of m
\* markers in source order.
OrderedChoices(n, m) ==
    { f \in [1..n -> 1..m] : \A a, b \in 1..n : a < b => f[a] < f[b] }

\* C2: a non-blank text with N >= 1 markers, wherever they stand, yields
\* exactly N entries, the k-th carrying the number of the k-th marker.
C2_OneEntryPerMarker ==
    LET ms == Markers(story_script)
    IN  (/\ pc = "story_done"
         /\ story_is_str
         /\ Strip(story_script) # <<>>
         /\ ms # <<>>)
        => /\ ~story_result.raised
           /\ Len(story_result.value) = Len(ms)
           /\ SceneNumbers = MarkerNumbersOf(ms)

\* C7: every entry is the text between its marker and the next marker (or
\* the end of the string), stripped: the entries can be matched, in order,
\* to markers of the text so that each entry has its marker's number and the
\* stripped text that follows that marker.
C7_TextBetweenMarkers ==
    StoryReturned =>
        LET ms == Markers(story_script)
            v == story_result.value
        IN  \E f \in OrderedChoices(Len(v), Len(ms)) :
                \A k \in 1..Len(v) :
                    /\ v[k].scene_number = ms[f[k]].number
                    /\ v[k].description = Strip(TextAfterMarker(story_script, ms, f[k]))

\* Every marker is followed by at least one character that is not the
\* start of the next marker.
MarkersApart(s, ms) ==
    \A k \in 1..Len(ms) :
        ms[k].colon + 1 < (IF k < Len(ms) THEN ms[k + 1].start ELSE Len(s) + 1)

HasMarker(s) ==
    \E i \in 1..Len(s) :
        /\ HasLiteral(s, i, SceneWord)
        /\ \E d \in (i + Len(SceneWord) + 1)..Len(s) :
              \E c \in (d + 1)..Len(s) : MarkerSpans(s, i, d, c)

\* C14: parse_story_script fails with NoScenesFound (ValueError 'No valid
\* scenes found...') and returns no list when the non-blank text contains
\* no marker; that error is not the InvalidInput one raised for blank input.
C14_NoScenesFound ==
    (pc = "story_done" /\ story_is_str) =>
        LET blank == Strip(story_script) = <<>>
            NoScenes == "No valid scenes found in the script. Scenes should be marked with 'Scene X:'"
        IN  /\ (~blank /\ ~HasMarker(story_script)) =>
                    story_result = Raise("ValueError", NoScenes)
            /\ blank => (story_result.raised /\ story_result.message # NoScenes)

\* C14 witness: a text that has the word of a marker but no whole marker was
\* rejected.
C14_NearMarkerWitness ==
    /\ pc = "story_done"
    /\ story_is_str
    /\ \E i \in 1..Len(story_script) : HasLiteral(story_script, i, SceneWord)
    /\ ~HasMarker(story_script)
    /\ story_result.raised
    /\ story_result.value = NoValue

(***************************************************************************)
(* Properties of parse_srt (SpecSrt) and of save_srt followed by parse_srt *)
(* (SpecRoundTrip)                                                         *)
(***************************************************************************)
\* What a reader of the SRT text finds in a block the text was put together from.
RECURSIVE DropBlankTail(_)
DropBlankTail(lines) ==
    IF lines # <<>> /\ Strip(lines[Len(lines)]) = <<>>
    THEN DropBlankTail(SubSeq(lines, 1, Len(lines) - 1))
    ELSE lines

\* The lines of the block once its leading and trailing whitespace is removed.
TrimmedLines(b) == DropBlankTail(LinesOfBlock(b))

NumberOfLine(l) == CASE l = <<"1">> -> 1 [] l = <<"1", "2">> -> 12

ExpectedEntry(b) ==
    [index |-> NumberOfLine(b.first),
     start_time |-> b.timing[1].start,
     end_time |-> b.timing[1].end,
     text |-> Strip(JoinWith(b.texts, <<" ">>))]

ExpectedEntries(bs) == [k \in 1..Len(bs) |-> ExpectedEntry(bs[k])]

HasThreeLines(b) == Len(LinesOfBlock(b)) >= 3
HasThreeTrimmedLines(b) == Len(TrimmedLines(b)) >= 3

\* The second line lacks the milliseconds of its first timestamp.
TimingWithoutMs(b) == b.timing # <<>> /\ b.timing[1].start = TsNoMs

\* A block of at least three lines that cannot be parsed: its first line is
\* no integer, or its second line is no 'HH:MM:SS,mmm --> HH:MM:SS,mmm'
\* (two spaces around the arrow are accepted by parse_srt).
InvalidBlock(b) ==
    /\ HasThreeTrimmedLines(b)
    /\ \/ b.first \notin NumberLines
       \/ TimingWithoutMs(b)
       \/ b.timing[1].sep = Arrow

SrtReturned == pc = "srt_done" /\ ~srt_result.raised

\* C3 (as stated): parse_srt of what save_srt wrote returns the entries
\* saved, for every list of entries.
C3_RoundTripAnyEntries ==
    pc = "reparsed" => ~srt_result.raised /\ srt_result.value = entries_in

\* Entries that survive the round trip: a text of one line, not empty and
\* without leading or trailing whitespace, and a non-negative index somewhere.
PlainText(t) == t # <<>> /\ Strip(t) = t /\ \A k \in 1..Len(t) : t[k] \notin {"\n", "\r"}

RoundTrippable(es) ==
    /\ es # <<>>
    /\ \E k \in 1..Len(es) : es[k].index >= 0
    /\ \A k \in 1..Len(es) : PlainText(es[k].text)

\* C3 (amended): parse_srt of what save_srt wrote returns the entries saved
\* when the list is not empty, every text is a non-empty single line without
\* outer whitespace and some index is not negative.
C3_RoundTripPlainEntries ==
    (pc = "reparsed" /\ RoundTrippable(entries_in))
    => ~srt_result.raised /\ srt_result.value = entries_in

\* C3 witness: two such entries, one with a negative index, one with a space
\* inside its text, were saved and parsed back.
C3_RoundTripWitness ==
    /\ pc = "reparsed"
    /\ RoundTrippable(entries_in)
    /\ Len(entries_in) = 2
    /\ entries_in[1].index < 0
    /\ entries_in[2].text = Hi \o <<" ">> \o Yo
    /\ ~srt_result.raised

\* C5: a block of at least 3 lines with an integer first line and a second
\* line without milliseconds, met before any other failing block, makes
\* parse_srt raise 'Invalid timing format in block <index>'.
C5_TimingErrorNamesIndex ==
    pc = "srt_done" =>
        \A k \in 1..Len(srt_doc.blocks) :
            (/\ HasThreeTrimmedLines(srt_doc.blocks[k])
             /\ srt_doc.blocks[k].first \in NumberLines
             /\ TimingWithoutMs(srt_doc.blocks[k])
             /\ \A j \in 1..(k - 1) : ~InvalidBlock(srt_doc.blocks[j]))
            => /\ srt_result.raised
               /\ srt_result.message = "Invalid timing format in block {index}"
               /\ srt_result.arg = NumberOfLine(srt_doc.blocks[k].first)

\* C9 (as stated): a successful parse_srt returns one entry per block of at
\* least 3 lines, in file order, with the block's index, timestamps and
\* joined text.
C9_EntryPerThreeLineBlock ==
    SrtReturned =>
        srt_result.value = ExpectedEntries(SelectSeq(srt_doc.blocks, HasThreeLines))

\* C9 (amended): a successful parse_srt returns one entry per block that has
\* at least 3 lines once the block is stripped of leading and trailing
\* whitespace, in file order, with the block's index, timestamps and joined
\* text; the other blocks give no entry and no error.
C9_EntryPerTrimmedBlock ==
    SrtReturned =>
        srt_result.value = ExpectedEntries(SelectSeq(srt_doc.blocks, HasThreeTrimmedLines))

\* C9 witness: a short block was skipped and the block after it, of two
\* text lines, gave the only entry.
C9_SkippedBlockWitness ==
    /\ SrtReturned
    /\ Len(srt_doc.blocks) = 2
    /\ ~HasThreeTrimmedLines(srt_doc.blocks[1])
    /\ srt_doc.blocks[2].texts = <<Hi, Yo>>
    /\ Len(srt_result.value) = 1

\* C10: failures are atomic.  parse_srt raises, and returns nothing, when
\* the text is blank, no block starts with a number or any block of at least
\* three lines is invalid, whatever was parsed before it; a list it returns
\* has an entry for every block of at least three lines.  parse_story_script
\* raises and returns nothing for a blank text or one without marker.
C10_FailuresAreAtomic ==
    /\ pc = "srt_done" =>
          LET bs == srt_doc.blocks
          IN  /\ ( \/ ~srt_is_str
                   \/ Strip(srt_content) = <<>>
                   \/ \A k \in 1..Len(bs) : bs[k].first \notin NumberLines
                   \/ \E k \in 1..Len(bs) : InvalidBlock(bs[k]) ) => srt_result.raised
              /\ srt_result.raised => srt_result.value = NoValue
              /\ ~srt_result.raised =>
                    Len(srt_result.value) = Len(SelectSeq(bs, HasThreeTrimmedLines))
    /\ pc = "story_done" =>
          /\ ( \/ ~story_is_str
               \/ Strip(story_script) = <<>>
               \/ Markers(story_script) = <<>> ) => story_result.raised
          /\ story_result.raised => story_result.value = NoValue

\* C10 witness: parse_srt raised at the second block after a first block
\* that parses.
C10_LateFailureWitness ==
    /\ pc = "srt_done"
    /\ Len(srt_doc.blocks) = 2
    /\ HasThreeTrimmedLines(srt_doc.blocks[1])
    /\ ~InvalidBlock(srt_doc.blocks[1])
    /\ InvalidBlock(srt_doc.blocks[2])
    /\ srt_result.raised
    /\ srt_result.value = NoValue

MissingNumbers == "Invalid SRT format: missing subtitle numbers"

\* C15: parse_srt fails with MalformedFormat ('Invalid SRT format: missing
\* subtitle numbers') exactly when the input is non-blank and no block has a
\* first line of digits only; one such block, even one skipped later for
\* having fewer than 3 lines, makes the check pass.
C15_MissingNumbersExactly ==
    (pc = "srt_done" /\ srt_is_str) =>
        LET bs == srt_doc.blocks
        IN  (srt_result.raised /\ srt_result.message = MissingNumbers)
                <=> /\ Strip(srt_content) # <<>>
                    /\ \A k \in 1..Len(bs) : bs[k].first \notin NumberLines

\* C15 witness: the only block that starts with a number is the second one
\* and has a single line; the check passed.
C15_ShortNumberedBlockWitness ==
    /\ pc = "srt_done"
    /\ Len(srt_doc.blocks) = 2
    /\ srt_doc.blocks[1].first \notin NumberLines
    /\ srt_doc.blocks[2].first \in NumberLines
    /\ srt_doc.blocks[2].timing = <<>>
    /\ ~(srt_result.raised /\ srt_result.message = MissingNumbers)

\* C16: both parsers reject blank input before any parsing: a ValueError of
\* the input check for the empty string, for whitespace only and for a
\* non-string.
C16_BlankInputRejected ==
    /\ (pc = "story_done" /\ (~story_is_str \/ Strip(story_script) = <<>>)) =>
          story_result =
              Raise("ValueError",
                    IF story_is_str THEN "Input cannot be empty" ELSE "Input must be a string")
    /\ (pc = "srt_done" /\ (~srt_is_str \/ Strip(srt_content) = <<>>)) =>
          srt_result = Raise("ValueError", "Invalid SRT content: must be a non-empty string")

\* C16 witness: parse_srt rejected a text of whitespace only.
C16_WhitespaceOnlyWitness ==
    /\ pc = "srt_done"
    /\ srt_is_str
    /\ srt_content # <<>>
    /\ Strip(srt_content) = <<>>
    /\ srt_result.raised

(***************************************************************************)
(* Properties of Character (SpecCharacter)                                 *)
(***************************************************************************)
\* The position of the first call made with the trait.
FirstCall(trait) ==
    CHOOSE k \in 1..Len(trait_calls) :
        trait_calls[k] = trait /\ \A j \in 1..(k - 1) : trait_calls[j] # trait

\* C20: after any sequence of add_personality_trait calls on a new
\* Character, personality has no trait twice, holds every trait that was
\* added and holds them in the order of their first addition (so a call with
\* a trait already present left the list as it was).
C20_TraitsOnceInFirstOrder ==
    pc = "character" =>
        /\ \A i, j \in 1..Len(personality) : i # j => personality[i] # personality[j]
        /\ Range(personality) = Range(trait_calls)
        /\ \A i, j \in 1..Len(personality) :
              i < j => FirstCall(personality[i]) < FirstCall(personality[j])

\* C20 witness: a trait was added, another one after it, then the first again.
C20_RepeatedTraitWitness ==
    /\ pc = "character"
    /\ Len(trait_calls) >= 3
    /\ trait_calls[1] = trait_calls[3]
    /\ trait_calls[2] # trait_calls[1]
    /\ Len(personality) = 2

(***************************************************************************)
(* Properties of StoryEnhancer (SpecEnhancer)                              *)
(***************************************************************************)
\* The scene is as it was but for a '[Plot Twist - ...]' block, which starts
\* after two line breaks at the end of the description it had.
GainedPlotTwist(before, after) ==
    LET n == Len(before.description)
    IN  /\ after.scene_number = before.scene_number
        /\ Len(after.description) >= n + 3
        /\ SubSeq(after.description, 1, n) = before.description
        /\ after.description[n + 3] = "[Plot Twist - "

\* C18: for every non-empty list of scenes, of length 1 too, add_plot_twist
\* returns without raising a list of the same length in which exactly one
\* scene has gained a '[Plot Twist - ...]' block and every other scene is
\* unchanged; and enhance_story succeeds with a text that contains
\* '[Plot Twist' for every script parse_story_script accepts.
C18_PlotTwistAlwaysAdded ==
    [][ /\ (pc' = "enh_twisted" /\ enh_scenes # <<>>) =>
              /\ ~enh_result'.raised
              /\ Len(enh_result'.value) = Len(enh_scenes)
              /\ \E k \in 1..Len(enh_scenes) :
                    /\ GainedPlotTwist(enh_scenes[k], enh_result'.value[k])
                    /\ \A j \in 1..Len(enh_scenes) :
                          j # k => enh_result'.value[j] = enh_scenes[j]
        /\ (pc' = "enh_story_done" /\ ~ParseStoryScriptOf(TRUE, enh_script).raised) =>
              /\ ~enh_result'.raised
              /\ "[Plot Twist - " \in Range(enh_result'.value)
      ]_vars

\* The same for lists and scripts of at least two scenes.
C18_PlotTwistAddedToTwoOrMore ==
    [][ /\ (pc' = "enh_twisted" /\ Len(enh_scenes) >= 2) =>
              /\ ~enh_result'.raised
              /\ Len(enh_result'.value) = Len(enh_scenes)
              /\ \E k \in 1..Len(enh_scenes) :
                    /\ GainedPlotTwist(enh_scenes[k], enh_result'.value[k])
                    /\ \A j \in 1..Len(enh_scenes) :
                          j # k => enh_result'.value[j] = enh_scenes[j]
        /\ (/\ pc' = "enh_story_done"
            /\ ~ParseStoryScriptOf(TRUE, enh_script).raised
            /\ Len(ParseStoryScriptOf(TRUE, enh_script).value) >= 2) =>
              /\ ~enh_result'.raised
              /\ "[Plot Twist - " \in Range(enh_result'.value)
      ]_vars

(***************************************************************************)
(* Properties of VideoConverter (SpecConverter)                            *)
(***************************************************************************)
\* The output path of a call that names its output.
NamedOutput(call) ==
    LET name == call.output_filename.value
    IN  IF Len(name) >= 2 /\ name[Len(name)] = call.output_format
        THEN name
        ELSE Append(name, call.output_format)

\* The call gets as far as its output path, and the output is there already.
FindsItsOutput(call) ==
    /\ call.input_path \in InputFiles
    /\ call.output_format \in {"mp4", "avi", "mov", "mkv", "webm"}
    /\ call.output_filename # NoValue
    /\ NamedOutput(call) \in DOMAIN files

\* C19: in every convert call of any sequence, a file that exists is never
\* replaced (nor removed) unless overwrite=True; when the output path exists
\* and overwrite is False the call raises FileExistsError before ffmpeg is
\* run and leaves the files as they were; with overwrite=True it goes on and
\* runs ffmpeg with '-y' on that path.
C19_NoOverwriteUnlessAsked ==
    [][ conv_calls' = conv_calls + 1 =>
          /\ \A n \in DOMAIN files :
                /\ n \in DOMAIN files'
                /\ files'[n] # files[n] => conv_call'.overwrite
          /\ (FindsItsOutput(conv_call') /\ ~conv_call'.overwrite) =>
                /\ conv_result'.raised
                /\ conv_result'.error = "FileExistsError"
                /\ ffmpeg_log' = <<>>
                /\ files' = files
          /\ (FindsItsOutput(conv_call') /\ conv_call'.overwrite) =>
                /\ Len(ffmpeg_log') = 1
                /\ LET cmd == ffmpeg_log'[1]
                   IN  /\ cmd[Len(cmd) - 1] = "-y"
                       /\ cmd[Len(cmd)] = NamedOutput(conv_call')
                /\ conv_result'.error # "FileExistsError"
      ]_vars

\* C19 witness: a call was refused because of a file that an earlier call
\* had written, and that file is still what the earlier call wrote.
C19_RefusedSecondCallWitness ==
    /\ pc = "converter"
    /\ conv_calls >= 2
    /\ conv_result.raised
    /\ conv_result.error = "FileExistsError"
    /\ ~conv_call.overwrite
    /\ conv_result.arg \in DOMAIN files
    /\ files[conv_result.arg].call >= 1
    /\ files[conv_result.arg].call < conv_calls

(***************************************************************************)
(* VideoEditor.trim_video (video_editor.py, lines 42-87)                   *)
(* Times are counted in whole units; a clip on disk is the interval of the *)
(* input video it was cut from.                                            *)
(***************************************************************************)
\* trim_video that validates the times before clamping them.
TrimVideoValidatingFirst(fs, duration, call) ==
    IF call.start_time >= call.end_time
    THEN [result |-> Raise("ValueError", "Start time must be less than end time"),
          files |-> fs]
    ELSE LET start_time == IF call.start_time < 0 THEN 0 ELSE call.start_time
             end_time == IF call.end_time > duration THEN duration ELSE call.end_time
             output_filename ==
                 IF call.output_filename = NoValue
                 THEN Stem(call.video_path)[1] \o "_trimmed.mp4"
                 ELSE call.output_filename.value
         IN  [result |-> Return(output_filename),
              files |-> WriteFile(fs, output_filename,
                                  [start |-> start_time, end |-> end_time])]

\* Lines 59-87: the result of the call and the files of output_dir after it.
TrimVideoOf(fs, duration, call) ==
    LET start_time == IF call.start_time < 0 THEN 0 ELSE call.start_time              \* 63-64
        end_time == IF call.end_time > duration THEN duration ELSE call.end_time      \* 65-66
    IN  IF start_time >= end_time                                                     \* 67-68
        THEN [result |-> Raise("ValueError", "Start time must be less than end time"),
              files |-> fs]
        ELSE LET output_filename ==                                                   \* 74-76
                     IF call.output_filename = NoValue
                     THEN Stem(call.video_path)[1] \o "_trimmed.mp4"
                     ELSE call.output_filename.value
             IN  [result |-> Return(output_filename),                                 \* 78-87
                  files |-> WriteFile(fs, output_filename,
                                      [start |-> start_time, end |-> end_time])]

\* The calls made: times from before the video's start to after its end.
TrimCalls(duration) ==
    [video_path : { <<"test_video", "mp4">> },
     start_time : -1..(duration + 1),
     end_time : -1..(duration + 1),
     output_filename : { NoValue, Given("cut.mp4") }]

\* VideoEditor(output_dir) on a new directory, and one input video.
InitEditor ==
    /\ pc = "editor"
    /\ IdleParsers
    /\ IdleEnhancer
    /\ IdleConverter
    /\ IdleCharacter
    /\ IdlePipeline
    /\ IdleObjects
    /\ video_duration \in 1..MaxDuration
    /\ trim_call = NoValue
    /\ trim_result = NoValue
    /\ edited = NoFiles
    /\ edited_before = NoFiles

TrimVideo ==
    /\ pc = "editor"
    /\ \E call \in TrimCalls(video_duration) :
          LET done == TrimVideoOf(edited, video_duration, call)
          IN  /\ trim_call' = call
              /\ trim_result' = done.result
              /\ edited' = done.files
    /\ edited_before' = edited
    /\ UNCHANGED <<pc, video_duration, parserVars, enhVars, convVars, charVars, pipeVars, objVars>>

NextEditor == TrimVideo
SpecEditor == InitEditor /\ [][NextEditor]_vars

\* C24: trim_video first clamps start_time below 0 to 0 and end_time above
\* the duration to the duration, then raises ValueError when start_time >=
\* end_time: a file that is written holds an interval with 0 <= start <
\* end <= duration, and a call that raises writes no file.
C24_TrimWithinVideo ==
    trim_call # NoValue =>
        LET start_time == IF trim_call.start_time < 0 THEN 0 ELSE trim_call.start_time
            end_time == IF trim_call.end_time > video_duration
                        THEN video_duration ELSE trim_call.end_time
        IN  /\ trim_result.raised <=> start_time >= end_time
            /\ trim_result.raised =>
                  trim_result.error = "ValueError" /\ edited = edited_before
            /\ ~trim_result.raised =>
                  /\ trim_result.value \in DOMAIN edited
                  /\ edited[trim_result.value] = [start |-> start_time, end |-> end_time]
            /\ \A name \in DOMAIN edited :
                  /\ 0 <= edited[name].start
                  /\ edited[name].start < edited[name].end
                  /\ edited[name].end <= video_duration

\* C24 witness: a call from before the start to after the end of the video
\* wrote the whole video.
C24_BothClampedWitness ==
    /\ trim_call # NoValue
    /\ trim_call.start_time < 0
    /\ trim_call.end_time > video_duration
    /\ ~trim_result.raised
    /\ edited[trim_result.value] = [start |-> 0, end |-> video_duration]

\* C24 witness of the refusal: a call with start_time >= end_time after
\* clamping raised and left the earlier files as they were.
C24_RefusedWitness ==
    /\ trim_call # NoValue
    /\ trim_call.start_time < trim_call.end_time
    /\ trim_result.raised
    /\ edited # NoFiles

(***************************************************************************)
(* SubtitleTranslator.process_subtitles (subtitle_translator.py, lines     *)
(* 257-304) with translate_subtitles, generate_voiceover and               *)
(* TTSGenerator.generate_speech (text_to_speech.py).  The translation API  *)
(* and the TTS API answer as they like.                                    *)
(***************************************************************************)
\* Lines 32-45: the languages with a voice.
LANGUAGE_MAPPING ==
    [lang \in {"en", "es", "fr", "de", "it", "pt", "nl", "pl", "ru", "ja", "ko", "zh"} |->
        LET code == CASE lang = "en" -> "en-US" [] lang = "es" -> "es-ES"
                      [] lang = "fr" -> "fr-FR" [] lang = "de" -> "de-DE"
                      [] lang = "it" -> "it-IT" [] lang = "pt" -> "pt-BR"
                      [] lang = "nl" -> "nl-NL" [] lang = "pl" -> "pl-PL"
                      [] lang = "ru" -> "ru-RU" [] lang = "ja" -> "ja-JP"
                      [] lang = "ko" -> "ko-KR" [] lang = "zh" -> "zh-CN"
        IN  [code |-> code, voice_id |-> code \o "-1"]]

\* translate_text, lines 134-156, given the answer of the API: the outcome,
\* and whether the request was made.
TranslateTextOf(text, response) ==
    IF Strip(text) = <<>>
    THEN [result |-> Return(text), requested |-> FALSE]
    ELSE IF response.kind = "request_failed"
    THEN [result |-> Raise("RuntimeError", "Translation request failed: {e}"),
          requested |-> TRUE]
    ELSE IF response.kind = "no_translatedText"
    THEN [result |-> Raise("RuntimeError", "Translation failed: {error}"),
          requested |-> TRUE]
    ELSE [result |-> Return(response.text), requested |-> TRUE]

\* translate_subtitles, lines 173-189: api[k] is the answer to a request for
\* entries[k]; done are the translated entries so far, log the requests made.
RECURSIVE TranslateFrom(_, _, _, _, _)
TranslateFrom(entries, k, api, done, log) ==
    IF k > Len(entries) THEN [result |-> Return(done), log |-> log]
    ELSE LET entry == entries[k]
             t == TranslateTextOf(entry.text, api[k])
             log2 == IF t.requested
                     THEN Append(log, [q |-> entry.text, response |-> api[k]])
                     ELSE log
         IN  IF t.result.raised
             THEN [result |-> t.result, log |-> log2]
             ELSE TranslateFrom(entries, k + 1, api,
                                Append(done, [index |-> entry.index,
                                              start_time |-> entry.start_time,
                                              end_time |-> entry.end_time,
                                              text |-> t.result.value]),
                                log2)

\* translate_subtitles that hands the entries on as they are.
TranslateSubtitlesKeepingText(entries, api) ==
    [result |-> Return(entries), log |-> <<>>]

\* Lines 173-189.
TranslateSubtitlesOf(entries, api) ==
    TranslateFrom(entries, 1, api, <<>>, <<>>)

BreakMarker == <<"\n", "<break time='500ms'/>", "\n">>

\* Lines 220-224.
RECURSIVE FullText(_)
FullText(entries) ==
    IF entries = <<>> THEN <<>>
    ELSE Head(entries).text \o BreakMarker \o FullText(Tail(entries))

\* TTSGenerator.generate_speech, text_to_speech.py lines 62-116, called with
\* the default speed and volume and a filename that ends in .mp3.
GenerateSpeechOf(fs, text, voice_id, filename, tts) ==
    IF Strip(text) = <<>>
    THEN [result |-> Raise("ValueError", "Text input cannot be empty"), files |-> fs]
    ELSE IF tts = "failed"
    THEN [result |-> Raise("RuntimeError", "API Request failed: {e}"), files |-> fs]
    ELSE [result |-> Return(filename),
          files |-> WriteFile(fs, filename, [voice_id |-> voice_id, text |-> text])]

\* generate_voiceover that looks the language up before it looks for the
\* TTS generator.
GenerateVoiceoverLanguageFirst(fs, has_tts, entries, target_lang, output_filename, tts) ==
    IF target_lang \notin DOMAIN LANGUAGE_MAPPING
    THEN [result |-> RaiseFrom("ValueError", "Unsupported target language: {target_lang}",
                               target_lang, NoValue),
          files |-> fs, calls |-> <<>>]
    ELSE IF ~has_tts
    THEN [result |-> Raise("RuntimeError", "TTS Generator not initialized. Please provide a TTSMaker API key when creating SubtitleTranslator."),
          files |-> fs, calls |-> <<>>]
    ELSE LET full_text == FullText(entries)
             voice_id == LANGUAGE_MAPPING[target_lang].voice_id
             speech == GenerateSpeechOf(fs, full_text, voice_id, output_filename, tts)
         IN  [result |-> speech.result, files |-> speech.files,
              calls |-> <<[text |-> full_text, voice_id |-> voice_id,
                           filename |-> output_filename]>>]

\* generate_voiceover, lines 209-231: the outcome, the files after it, and
\* the generate_speech calls made.
GenerateVoiceoverOf(fs, has_tts, entries, target_lang, output_filename, tts) ==
    IF ~has_tts
    THEN [result |-> Raise("RuntimeError", "TTS Generator not initialized. Please provide a TTSMaker API key when creating SubtitleTranslator."),
          files |-> fs, calls |-> <<>>]
    ELSE IF target_lang \notin DOMAIN LANGUAGE_MAPPING
    THEN [result |-> RaiseFrom("ValueError", "Unsupported target language: {target_lang}",
                               target_lang, NoValue),
          files |-> fs, calls |-> <<>>]
    ELSE LET full_text == FullText(entries)
             voice_id == LANGUAGE_MAPPING[target_lang].voice_id
             speech == GenerateSpeechOf(fs, full_text, voice_id, output_filename, tts)
         IN  [result |-> speech.result, files |-> speech.files,
              calls |-> <<[text |-> full_text, voice_id |-> voice_id,
                           filename |-> output_filename]>>]

\* The input files: blocks that parse, one with a bad timing line and one
\* that is too short to be an entry.
PipeBlocks ==
    { [first |-> <<"1">>, timing |-> <<GoodTiming>>, texts |-> <<Hi>>],
      [first |-> <<"1", "2">>, timing |-> <<GoodTiming>>, texts |-> <<Hi, Yo>>],
      [first |-> <<"1">>, timing |-> <<[start |-> TsNoMs, sep |-> ArrowSep, end |-> TsB]>>,
       texts |-> <<Hi>>],
      [first |-> <<"1">>, timing |-> <<>>, texts |-> <<>>] }

PipeDocs ==
    { [blocks |-> bs, gap |-> NewLine \o NewLine] :
        bs \in UNION { [1..n -> PipeBlocks] : n \in 0..MaxBlocks } }

Hola == <<"H", "o", "l", "a">>

\* What the translation API answers to one request.
ApiResponses ==
    { [kind |-> "translated", text |-> Hola],
      [kind |-> "translated", text |-> Hi],
      [kind |-> "request_failed", text |-> <<>>],
      [kind |-> "no_translatedText", text |-> <<>>] }

TtsRuns == { "done", "failed" }

\* SubtitleTranslator(tts_api_key = None, '' or 'dummy_key'), lines 47-66.
TtsApiKeys == { NoValue, Given(""), Given("dummy_key") }

PipeCalls ==
    [srt_path : { <<"input", "srt">> }, source_lang : { "en" },
     target_lang : { "es", "invalid" }, generate_audio : BOOLEAN]

InitPipeline ==
    /\ pc = "pipe_ready"
    /\ IdleParsers
    /\ IdleEnhancer
    /\ IdleConverter
    /\ IdleCharacter
    /\ IdleEditor
    /\ IdleObjects
    /\ pipe_doc \in PipeDocs
    /\ pipe_call \in PipeCalls
    /\ \E tts_api_key \in TtsApiKeys :
          tts_generator = (tts_api_key # NoValue /\ tts_api_key.value # "")
    /\ pipe_entries = <<>>
    /\ pipe_translated = <<>>
    /\ pipe_dict = NoFiles
    /\ api_log = <<>>
    /\ tts_log = <<>>
    /\ out_files = NoFiles
    /\ pipe_result = NoValue
    /\ pipe_steps = <<>>

\* Lines 275-278.
PipeParse ==
    /\ pc = "pipe_ready"
    /\ LET parsed == ParseSrtOf(TRUE, TextOfDoc(pipe_doc))
       IN  IF parsed.raised
           THEN /\ pipe_result' = parsed
                /\ pc' = "pipe_raised"
                /\ UNCHANGED pipe_entries
           ELSE /\ pipe_entries' = parsed.value
                /\ pc' = "pipe_parsed"
                /\ UNCHANGED pipe_result
    /\ pipe_steps' = Append(pipe_steps, "parse_srt")
    /\ UNCHANGED <<pipe_doc, pipe_call, tts_generator, pipe_translated, pipe_dict,
                   api_log, tts_log, out_files>>
    /\ UNCHANGED <<parserVars, enhVars, convVars, charVars, editVars, objVars>>

\* Lines 281-285.
PipeTranslate ==
    /\ pc = "pipe_parsed"
    /\ \E api \in [1..Len(pipe_entries) -> ApiResponses] :
          LET done == TranslateSubtitlesOf(pipe_entries, api)
          IN  /\ api_log' = done.log
              /\ IF done.result.raised
                 THEN /\ pipe_result' = done.result
                      /\ pc' = "pipe_raised"
                      /\ UNCHANGED pipe_translated
                 ELSE /\ pipe_translated' = done.result.value
                      /\ pc' = "pipe_translated"
                      /\ UNCHANGED pipe_result
    /\ pipe_steps' = Append(pipe_steps, "translate_subtitles")
    /\ UNCHANGED <<pipe_doc, pipe_call, tts_generator, pipe_entries, pipe_dict,
                   tts_log, out_files>>
    /\ UNCHANGED <<parserVars, enhVars, convVars, charVars, editVars, objVars>>

\* f"{base_name}_{target_lang}{suffix}", lines 288-289 and 297.
OutputName(call, suffix) == Stem(call.srt_path)[1] \o "_" \o call.target_lang \o suffix

\* Lines 288-293.
PipeSave ==
    /\ pc = "pipe_translated"
    /\ LET srt_output == OutputName(pipe_call, ".srt")
       IN  /\ out_files' = WriteFile(out_files, srt_output, SaveSrtOf(pipe_translated))
           /\ pipe_dict' = WriteFile(NoFiles, "subtitles", srt_output)
    /\ pc' = "pipe_saved"
    /\ pipe_steps' = Append(pipe_steps, "save_srt")
    /\ UNCHANGED <<pipe_doc, pipe_call, tts_generator, pipe_entries, pipe_translated,
                   api_log, tts_log, pipe_result>>
    /\ UNCHANGED <<parserVars, enhVars, convVars, charVars, editVars, objVars>>

\* Lines 296-302.
PipeVoiceover ==
    /\ pc = "pipe_saved"
    /\ pipe_call.generate_audio
    /\ \E tts \in TtsRuns :
          LET audio_output == OutputName(pipe_call, ".mp3")
              done == GenerateVoiceoverOf(out_files, tts_generator, pipe_translated,
                                          pipe_call.target_lang, audio_output, tts)
          IN  /\ tts_log' = done.calls
              /\ out_files' = done.files
              /\ IF done.result.raised
                 THEN /\ pipe_result' = done.result
                      /\ pc' = "pipe_raised"
                      /\ UNCHANGED pipe_dict
                 ELSE /\ pipe_dict' = WriteFile(pipe_dict, "audio", done.result.value)
                      /\ pc' = "pipe_voiced"
                      /\ UNCHANGED pipe_result
    /\ pipe_steps' = Append(pipe_steps, "generate_voiceover")
    /\ UNCHANGED <<pipe_doc, pipe_call, tts_generator, pipe_entries, pipe_translated,
                   api_log>>
    /\ UNCHANGED <<parserVars, enhVars, convVars, charVars, editVars, objVars>>

\* Line 304.
PipeReturn ==
    /\ \/ pc = "pipe_saved" /\ ~pipe_call.generate_audio
       \/ pc = "pipe_voiced"
    /\ pipe_result' = Return(pipe_dict)
    /\ pc' = "pipe_returned"
    /\ UNCHANGED <<pipe_doc, pipe_call, tts_generator, pipe_entries, pipe_translated,
                   pipe_dict, api_log, tts_log, out_files, pipe_steps>>
    /\ UNCHANGED <<parserVars, enhVars, convVars, charVars, editVars, objVars>>

NextPipeline == PipeParse \/ PipeTranslate \/ PipeSave \/ PipeVoiceover \/ PipeReturn
SpecPipeline == InitPipeline /\ [][NextPipeline]_vars

\* The entries a reader finds in the input file: one for each block of at
\* least three lines.
PipeParsedBlocks == SelectSeq(pipe_doc.blocks, HasThreeTrimmedLines)

\* C23: process_subtitles with generate_audio=False writes an SRT file with
\* one entry for each parsed entry of the input, in the same order, with
\* index, start_time and end_time as parsed and the text replaced by what the
\* translation API answered; the dict returned has the key 'subtitles' and
\* no key 'audio'; the TTS generator is never invoked.
C23_TranslatedFileOnly ==
    (pc \in {"pipe_ready", "pipe_parsed", "pipe_translated", "pipe_saved", "pipe_voiced",
             "pipe_returned", "pipe_raised"} /\ ~pipe_call.generate_audio) =>
        /\ tts_log = <<>>
        /\ "generate_voiceover" \notin Range(pipe_steps)
        /\ pc = "pipe_returned" =>
              LET parsed == ExpectedEntries(PipeParsedBlocks)
                  written == [k \in 1..Len(parsed) |->
                                 [index |-> parsed[k].index,
                                  start_time |-> parsed[k].start_time,
                                  end_time |-> parsed[k].end_time,
                                  text |-> api_log[k].response.text]]
              IN  /\ ~pipe_result.raised
                  /\ DOMAIN pipe_result.value = {"subtitles"}
                  /\ pipe_result.value["subtitles"] \in DOMAIN out_files
                  /\ DOMAIN out_files = {pipe_result.value["subtitles"]}
                  /\ Len(api_log) = Len(parsed)
                  /\ \A k \in 1..Len(parsed) : api_log[k].q = parsed[k].text
                  /\ out_files[pipe_result.value["subtitles"]]
                        = Flatten([k \in 1..Len(parsed) |-> WriteEntry(written[k])])

\* C23 witness: two entries were translated to texts other than their own and
\* the call returned without audio.
C23_TwoEntriesWitness ==
    /\ pc = "pipe_returned"
    /\ ~pipe_call.generate_audio
    /\ Len(pipe_entries) = 2
    /\ \A k \in 1..2 : pipe_translated[k].text # pipe_entries[k].text
    /\ pipe_translated[1].index # pipe_translated[2].index

PipeOrder == <<"parse_srt", "translate_subtitles", "save_srt", "generate_voiceover">>

VoiceoverRaised == pc = "pipe_raised" /\ Len(pipe_steps) = Len(PipeOrder)

\* C29: with generate_audio=True the steps run in the order parse,
\* translate, write the translated SRT file, generate voiceover; when
\* generate_voiceover raises (RuntimeError for a missing TTS generator,
\* checked before the ValueError for an unsupported target language) the
\* exception reaches the caller, no dict is returned and the translated
\* SRT file stays on disk.
C29_VoiceoverLastFileKept ==
    (pc \in {"pipe_ready", "pipe_parsed", "pipe_translated", "pipe_saved", "pipe_voiced",
             "pipe_returned", "pipe_raised"} /\ pipe_call.generate_audio) =>
        /\ Len(pipe_steps) <= Len(PipeOrder)
        /\ pipe_steps = SubSeq(PipeOrder, 1, Len(pipe_steps))
        /\ pc = "pipe_returned" => pipe_steps = PipeOrder
        /\ (OutputName(pipe_call, ".srt") \in DOMAIN out_files)
              <=> "save_srt" \in Range(pipe_steps)
        /\ VoiceoverRaised =>
              /\ pipe_result.raised
              /\ out_files[OutputName(pipe_call, ".srt")] = SaveSrtOf(pipe_translated)
              /\ ~tts_generator =>
                    pipe_result.error = "RuntimeError" /\ tts_log = <<>>
              /\ (tts_generator /\ pipe_call.target_lang \notin DOMAIN LANGUAGE_MAPPING) =>
                    pipe_result.error = "ValueError" /\ tts_log = <<>>

\* C29 witness: without a TTS generator and with an unsupported language
\* the voiceover raised after a translated entry was written.
C29_NoTtsWitness ==
    /\ VoiceoverRaised
    /\ pipe_call.generate_audio
    /\ ~tts_generator
    /\ pipe_call.target_lang = "invalid"
    /\ pipe_translated # <<>>
    /\ OutputName(pipe_call, ".srt") \in DOMAIN out_files

(***************************************************************************)
(* Character objects (character.py): the character c, its copy d made by   *)
(* Character.from_dict(c.to_dict()), and the lists, dicts and dataclass    *)
(* instances their attributes refer to.  heap[id] is the object with       *)
(* identity id; an attribute that holds an object holds its id.            *)
(***************************************************************************)
EmptyDict == [key \in {} |-> NoValue]

\* d[key] = value
DictSet(d, key, value) == [k \in DOMAIN d \cup {key} |-> IF k = key THEN value ELSE d[k]]

\* dict(pairs) of a sequence of <<key, value>>
RECURSIVE DictOf(_)
DictOf(pairs) ==
    IF pairs = <<>> THEN EmptyDict
    ELSE DictSet(DictOf(SubSeq(pairs, 1, Len(pairs) - 1)),
                 pairs[Len(pairs)][1], pairs[Len(pairs)][2])

\* Lines 13-23: CharacterAppearance().
CharacterAppearance ==
    [kind |-> "CharacterAppearance",
     fields |-> [height |-> "", build |-> "", hair_color |-> "", hair_style |-> "",
                 eye_color |-> "", skin_tone |-> "", distinguishing_features |-> <<>>,
                 age |-> ""],
     attrs |-> EmptyDict]

\* Lines 25-33: CharacterClothing().
CharacterClothing ==
    [kind |-> "CharacterClothing",
     fields |-> [top |-> "", bottom |-> "", footwear |-> "", accessories |-> <<>>,
                 style |-> "", color_scheme |-> <<>>],
     attrs |-> EmptyDict]

\* Names every dataclass instance has through its class besides its fields
\* (two of them).
DataclassAttributes == { "__doc__", "__dataclass_fields__" }

\* hasattr(obj, key) of lines 72 and 85; attrs are the attributes of the
\* instance that are no fields.
HasAttr(obj, key) ==
    \/ key \in DOMAIN obj.fields
    \/ key \in DOMAIN obj.attrs
    \/ key \in DataclassAttributes

\* setattr(obj, key, value) of lines 73 and 86.
SetAttr(obj, key, value) ==
    IF key \in DOMAIN obj.fields
    THEN [obj EXCEPT !.fields[key] = value]
    ELSE [obj EXCEPT !.attrs = DictSet(obj.attrs, key, value)]

\* An update that checks every key before it sets the first.
RECURSIVE UpdateAttributesAtomic(_, _, _)
UpdateAttributesAtomic(obj, kwargs, what) ==
    LET unknown == { k \in 1..Len(kwargs) : ~HasAttr(obj, kwargs[k][1]) }
    IN  IF unknown # {}
        THEN LET first == CHOOSE k \in unknown : \A j \in unknown : k <= j
             IN  [result |-> RaiseFrom("ValueError", "Invalid " \o what \o " attribute: {key}",
                                       kwargs[first][1], NoValue),
                  obj |-> obj]
        ELSE IF kwargs = <<>> THEN [result |-> Return(NoValue), obj |-> obj]
        ELSE UpdateAttributesAtomic(SetAttr(obj, Head(kwargs)[1], Head(kwargs)[2]),
                                    Tail(kwargs), what)

\* The loop of lines 71-75 and 84-88 over kwargs, a sequence of <<key, value>>.
RECURSIVE UpdateAttributes(_, _, _)
UpdateAttributes(obj, kwargs, what) ==
    IF kwargs = <<>> THEN [result |-> Return(NoValue), obj |-> obj]
    ELSE LET key == Head(kwargs)[1]
             value == Head(kwargs)[2]
         IN  IF HasAttr(obj, key)
             THEN UpdateAttributes(SetAttr(obj, key, value), Tail(kwargs), what)
             ELSE [result |-> RaiseFrom("ValueError", "Invalid " \o what \o " attribute: {key}",
                                        key, NoValue),
                   obj |-> obj]

ListObject(items) == [kind |-> "list", items |-> items]
DictObject(items) == [kind |-> "dict", items |-> items]

\* Lines 49-62: Character(name) makes five objects of its own.
NewCharacter(h, name) ==
    [heap |-> h \o <<CharacterAppearance, CharacterClothing, ListObject(<<>>),
                     DictObject(EmptyDict), DictObject(EmptyDict)>>,
     char |-> [name |-> name,
               appearance |-> Len(h) + 1,
               clothing |-> Len(h) + 2,
               personality |-> Len(h) + 3,
               background |-> "",
               relationships |-> Len(h) + 4,
               scene_specific_states |-> Len(h) + 5]]

\* dataclasses.asdict(obj) of lines 151-152: the fields are those named by
\* obj.__dataclass_fields__, which an attribute of the instance hides.
AsDict(obj) ==
    IF "__dataclass_fields__" \in DOMAIN obj.attrs
    THEN IF obj.attrs["__dataclass_fields__"] = "{}"
         THEN Return(EmptyDict)
         ELSE Raise("AttributeError", "'str' object has no attribute 'values'")
    ELSE Return(obj.fields)

\* to_dict that puts copies of the list and of the two dicts in the dict.
ToDictCopying(h, ch) ==
    LET appearance == AsDict(h[ch.appearance])
        clothing == AsDict(h[ch.clothing])
    IN  IF appearance.raised THEN [result |-> appearance, heap |-> h]
        ELSE IF clothing.raised THEN [result |-> clothing, heap |-> h]
        ELSE [result |-> Return([name |-> ch.name,
                                 appearance |-> appearance.value,
                                 clothing |-> clothing.value,
                                 personality |-> Len(h) + 1,
                                 background |-> ch.background,
                                 relationships |-> Len(h) + 2,
                                 scene_specific_states |-> Len(h) + 3]),
              heap |-> h \o <<h[ch.personality], h[ch.relationships],
                              h[ch.scene_specific_states]>>]

\* Lines 149-157: the dict returned, and the heap after the call.
ToDictOf(h, ch) ==
    LET appearance == AsDict(h[ch.appearance])
        clothing == AsDict(h[ch.clothing])
    IN  IF appearance.raised THEN [result |-> appearance, heap |-> h]
        ELSE IF clothing.raised THEN [result |-> clothing, heap |-> h]
        ELSE [result |-> Return([name |-> ch.name,
                                 appearance |-> appearance.value,
                                 clothing |-> clothing.value,
                                 personality |-> ch.personality,
                                 background |-> ch.background,
                                 relationships |-> ch.relationships,
                                 scene_specific_states |-> ch.scene_specific_states]),
              heap |-> h]

\* CharacterAppearance(**data), CharacterClothing(**data): the defaults with
\* the given fields.
Construct(defaults, data) ==
    [defaults EXCEPT !.fields = [f \in DOMAIN defaults.fields |->
                                   IF f \in DOMAIN data THEN data[f] ELSE defaults.fields[f]]]

\* Lines 179-195 (the objects Character(name) makes at line 179 and lines
\* 183-193 replace at once are left out).
FromDictOf(h, data) ==
    [heap |-> h \o <<Construct(CharacterAppearance, data.appearance),
                     Construct(CharacterClothing, data.clothing)>>,
     char |-> [name |-> data.name,
               appearance |-> Len(h) + 1,
               clothing |-> Len(h) + 2,
               personality |-> data.personality,
               background |-> data.background,
               relationships |-> data.relationships,
               scene_specific_states |-> data.scene_specific_states]]

\* One call of a method of lines 64-127 on the character ch: what it
\* returned or raised, the heap and the character after it.
CallOf(h, ch, call) ==
    LET args == call.args
    IN  CASE call.op = "update_appearance" ->
               LET done == UpdateAttributes(h[ch.appearance], args, "appearance")
               IN  [result |-> done.result,
                    heap |-> [h EXCEPT ![ch.appearance] = done.obj],
                    char |-> ch]
          [] call.op = "update_clothing" ->
               LET done == UpdateAttributes(h[ch.clothing], args, "clothing")
               IN  [result |-> done.result,
                    heap |-> [h EXCEPT ![ch.clothing] = done.obj],
                    char |-> ch]
          [] call.op = "add_personality_trait" ->
               [result |-> Return(NoValue),
                heap |-> [h EXCEPT ![ch.personality].items =
                                       AddPersonalityTraitOf(@, args[1][2])],
                char |-> ch]
          [] call.op = "set_background" ->
               [result |-> Return(NoValue),
                heap |-> h,
                char |-> [ch EXCEPT !.background = args[1][2]]]
          [] call.op = "add_relationship" ->
               [result |-> Return(NoValue),
                heap |-> [h EXCEPT ![ch.relationships].items =
                                       DictSet(@, args[1][2], args[2][2])],
                char |-> ch]
          [] call.op = "set_scene_state" ->
               [result |-> Return(NoValue),
                heap |-> [h EXCEPT ![ch.scene_specific_states].items =
                                       DictSet(@, args[1][2], DictOf(Tail(args)))],
                char |-> ch]

\* Keyword arguments, in the order they are written in the call.
AppearanceKwargs ==
    { << <<"height", "tall">> >>,
      << <<"height", "short">>, <<"hair_color", "red">> >>,
      << <<"height", "medium">>, <<"invalid_field", "value">>, <<"build", "slim">> >>,
      << <<"invalid_field", "value">>, <<"height", "short">> >>,
      << <<"__doc__", "notes">> >>,
      << <<"__dataclass_fields__", "{}">> >>,
      << <<"__dataclass_fields__", "none">> >> }

ClothingKwargs ==
    { << <<"top", "hoodie">> >>,
      << <<"top", "t-shirt">>, <<"invalid_field", "value">>, <<"bottom", "jeans">> >> }

CharCalls ==
    { [op |-> "update_appearance", args |-> kwargs] : kwargs \in AppearanceKwargs }
    \cup { [op |-> "update_clothing", args |-> kwargs] : kwargs \in ClothingKwargs }
    \cup { [op |-> "add_personality_trait", args |-> << <<"trait", "friendly">> >>],
           [op |-> "set_background", args |-> << <<"background", "Test background">> >>],
           [op |-> "add_relationship",
            args |-> << <<"character_name", "Friend">>, <<"relationship", "close friend">> >>],
           [op |-> "set_scene_state",
            args |-> << <<"scene_id", "scene_1">>, <<"mood", "happy">> >>] }

InitObjects ==
    /\ pc = "characters"
    /\ IdleParsers
    /\ IdleEnhancer
    /\ IdleConverter
    /\ IdleCharacter
    /\ IdleEditor
    /\ IdlePipeline
    /\ LET made == NewCharacter(<<>>, "Test Character")
       IN  heap = made.heap /\ char_c = made.char /\ heap_before = made.heap
    /\ char_d = NoValue
    /\ char_calls = 0
    /\ char_call = NoValue
    /\ char_result = NoValue

\* A call of one of the methods of lines 64-127 on c.
CallOnC ==
    /\ pc = "characters"
    /\ char_calls < MaxCharCalls
    /\ \E call \in CharCalls :
          LET done == CallOf(heap, char_c, call)
          IN  /\ heap' = done.heap
              /\ char_c' = done.char
              /\ char_result' = done.result
              /\ char_call' = [target |-> "c", op |-> call.op, args |-> call.args]
    /\ heap_before' = heap
    /\ char_calls' = char_calls + 1
    /\ UNCHANGED <<pc, char_d>>
    /\ UNCHANGED <<parserVars, enhVars, convVars, charVars, editVars, pipeVars>>

\* ... and on d.
CallOnD ==
    /\ pc = "characters"
    /\ char_calls < MaxCharCalls
    /\ char_d # NoValue
    /\ \E call \in CharCalls :
          LET done == CallOf(heap, char_d, call)
          IN  /\ heap' = done.heap
              /\ char_d' = done.char
              /\ char_result' = done.result
              /\ char_call' = [target |-> "d", op |-> call.op, args |-> call.args]
    /\ heap_before' = heap
    /\ char_calls' = char_calls + 1
    /\ UNCHANGED <<pc, char_c>>
    /\ UNCHANGED <<parserVars, enhVars, convVars, charVars, editVars, pipeVars>>

\* d = Character.from_dict(c.to_dict())
FromDictOfToDict ==
    /\ pc = "characters"
    /\ char_calls < MaxCharCalls
    /\ LET data == ToDictOf(heap, char_c)
       IN  IF data.result.raised
           THEN /\ char_result' = data.result
                /\ heap' = data.heap
                /\ UNCHANGED char_d
           ELSE LET made == FromDictOf(data.heap, data.result.value)
                IN  /\ char_result' = Return(NoValue)
                    /\ heap' = made.heap
                    /\ char_d' = made.char
    /\ char_call' = [target |-> "c", op |-> "from_dict", args |-> <<>>]
    /\ heap_before' = heap
    /\ char_calls' = char_calls + 1
    /\ UNCHANGED <<pc, char_c>>
    /\ UNCHANGED <<parserVars, enhVars, convVars, charVars, editVars, pipeVars>>

NextObjects == CallOnC \/ CallOnD \/ FromDictOfToDict
SpecObjects == InitObjects /\ [][NextObjects]_vars

(***************************************************************************)
(* Properties of the Character objects (SpecObjects)                       *)
(***************************************************************************)
LastTarget == IF char_call.target = "c" THEN char_c ELSE char_d
LastOther == IF char_call.target = "c" THEN char_d ELSE char_c

IsUpdate == char_call # NoValue /\ char_call.op \in {"update_appearance", "update_clothing"}

\* The dataclass instance the last update was made on.
UpdatedRef ==
    IF char_call.op = "update_appearance" THEN LastTarget.appearance ELSE LastTarget.clothing

KeyOf(k) == char_call.args[k][1]
ValueOf(k) == char_call.args[k][2]

\* The data the claims compare: the fields of the two dataclass instances
\* and the contents of the list and of the two dicts.
DataOf(h, ch) ==
    [name |-> ch.name,
     appearance |-> h[ch.appearance].fields,
     clothing |-> h[ch.clothing].fields,
     personality |-> h[ch.personality].items,
     background |-> ch.background,
     relationships |-> h[ch.relationships].items,
     scene_specific_states |-> h[ch.scene_specific_states].items]

\* C21: for every character c reached by calls of update_appearance,
\* update_clothing, add_personality_trait, set_background, add_relationship
\* and set_scene_state, Character.from_dict(c.to_dict()) has the name, the
\* appearance and clothing fields, the personality, the background, the
\* relationships and the scene_specific_states of c.
C21_RoundTripKeepsData ==
    (char_call # NoValue /\ char_call.op = "from_dict") =>
        /\ ~char_result.raised
        /\ char_d # NoValue
        /\ DataOf(heap, char_d) = DataOf(heap, char_c)

\* C22: update_appearance and update_clothing reject unknown fields: a call
\* that names a key that is no field of the dataclass raises ValueError and
\* creates no new attribute on the object; a call that names fields only
\* sets exactly those and leaves every other field as it was.
C22_UnknownFieldsRejected ==
    IsUpdate =>
        LET before == heap_before[UpdatedRef]
            after == heap[UpdatedRef]
            named == 1..Len(char_call.args)
        IN  IF \E k \in named : KeyOf(k) \notin DOMAIN before.fields
            THEN /\ char_result.raised
                 /\ char_result.error = "ValueError"
                 /\ DOMAIN after.attrs = DOMAIN before.attrs
            ELSE /\ ~char_result.raised
                 /\ after.attrs = before.attrs
                 /\ \A f \in DOMAIN before.fields :
                       IF \E k \in named : KeyOf(k) = f
                       THEN \E k \in named : KeyOf(k) = f /\ after.fields[f] = ValueOf(k)
                       ELSE after.fields[f] = before.fields[f]

\* The keys of the last update the object had no attribute for.
UnknownKeys ==
    { k \in 1..Len(char_call.args) : ~HasAttr(heap_before[UpdatedRef], KeyOf(k)) }

FirstUnknown == CHOOSE k \in UnknownKeys : \A j \in UnknownKeys : k <= j

\* obj has the attribute key with this value.
HasValue(obj, key, value) ==
    IF key \in DOMAIN obj.fields THEN obj.fields[key] = value
    ELSE key \in DOMAIN obj.attrs /\ obj.attrs[key] = value

\* The attribute key is in after what it was in before.
Untouched(before, after, key) ==
    IF key \in DOMAIN before.fields THEN after.fields[key] = before.fields[key]
    ELSE /\ (key \in DOMAIN after.attrs) <=> (key \in DOMAIN before.attrs)
         /\ key \in DOMAIN before.attrs => after.attrs[key] = before.attrs[key]

\* C27: update_appearance and update_clothing are not atomic on error: they
\* apply the keys one at a time in call order and stop at the first unknown
\* key (the one ValueError names); when ValueError is raised every key
\* before that one has been set and no key after it has been applied.
C27_PartialUpdateOnError ==
    IsUpdate =>
        LET before == heap_before[UpdatedRef]
            after == heap[UpdatedRef]
        IN  /\ char_result.raised <=> UnknownKeys # {}
            /\ char_result.raised =>
                  /\ char_result.error = "ValueError"
                  /\ char_result.arg = KeyOf(FirstUnknown)
                  /\ \A k \in 1..(FirstUnknown - 1) : HasValue(after, KeyOf(k), ValueOf(k))
                  /\ \A k \in FirstUnknown..Len(char_call.args) :
                        Untouched(before, after, KeyOf(k))

\* C27 witness: an update of three keys raised at the second; the first
\* changed its field, and the third would have changed its field.
C27_RaisedAtSecondKeyWitness ==
    /\ IsUpdate
    /\ char_result.raised
    /\ Len(char_call.args) = 3
    /\ FirstUnknown = 2
    /\ heap_before[UpdatedRef].fields[KeyOf(1)] # ValueOf(1)
    /\ heap[UpdatedRef].fields[KeyOf(1)] = ValueOf(1)
    /\ heap[UpdatedRef].fields[KeyOf(3)] # ValueOf(3)

\* C28: to_dict returns the character's own personality list, relationships
\* dict and scene_specific_states dict and from_dict stores the objects it
\* is given: after d = Character.from_dict(c.to_dict()),
\* add_personality_trait, add_relationship and set_scene_state on d change
\* the same field of c, and those on c change d; appearance and clothing
\* of d are copies, and updates of them on one leave the other as it was.
C28_ContainersSharedCopiesApart ==
    (char_d # NoValue /\ char_call # NoValue) =>
        LET target == DataOf(heap, LastTarget)
            other == DataOf(heap, LastOther)
            args == char_call.args
        IN  /\ char_call.op = "add_personality_trait" =>
                  /\ args[1][2] \in Range(other.personality)
                  /\ other.personality = target.personality
            /\ char_call.op = "add_relationship" =>
                  /\ args[1][2] \in DOMAIN other.relationships
                  /\ other.relationships[args[1][2]] = args[2][2]
                  /\ other.relationships = target.relationships
            /\ char_call.op = "set_scene_state" =>
                  /\ args[1][2] \in DOMAIN other.scene_specific_states
                  /\ other.scene_specific_states[args[1][2]] = DictOf(Tail(args))
                  /\ other.scene_specific_states = target.scene_specific_states
            /\ IsUpdate =>
                  /\ heap[LastOther.appearance] = heap_before[LastOther.appearance]
                  /\ heap[LastOther.clothing] = heap_before[LastOther.clothing]
                  /\ LastOther.appearance # LastTarget.appearance
                  /\ LastOther.clothing # LastTarget.clothing

\* C28 witness: after an update of d's appearance that c does not show, a
\* trait added to d is a new trait of c.
C28_TraitAddedThroughCopyWitness ==
    /\ char_d # NoValue
    /\ char_call # NoValue
    /\ char_call.target = "d"
    /\ char_call.op = "add_personality_trait"
    /\ char_call.args[1][2] \notin Range(heap_before[char_c.personality].items)
    /\ char_call.args[1][2] \in Range(heap[char_c.personality].items)
    /\ heap[char_d.appearance].fields.height # heap[char_c.appearance].fields.height

(***************************************************************************)
(* Rounding and scaling of _calculate_dimensions (SpecGeom)                *)
(***************************************************************************)
\* x is an integer nearest to num / den (either one when num / den is
\* halfway between two integers).
IsNearest(x, num, den) == Within(2 * x * den, 2 * num, den + 1)

\* (w, h), (cw_, ch_) is what the rounding algorithm gives for the call:
\* step 2 from the source size, step 3 from max_dimension, step 4 the canvas.
RoundedResult(w, h, canvas_w, canvas_h) ==
    LET num == target_ratio[1]
        den == target_ratio[2]
        Step3(w2, h2) ==
            IF w2 > max_dimension \/ h2 > max_dimension
            THEN LET m == IF w2 > h2 THEN w2 ELSE h2
                 IN  /\ IsNearest(w, w2 * max_dimension, m)
                     /\ IsNearest(h, h2 * max_dimension, m)
            ELSE w = w2 /\ h = h2
    IN  /\ IF current_width * den > num * current_height
           THEN \E w2 \in 0..current_width :
                    IsNearest(w2, current_height * num, den) /\ Step3(w2, current_height)
           ELSE \E h2 \in 0..current_height :
                    IsNearest(h2, current_width * den, num) /\ Step3(current_width, h2)
        /\ IF w * den > num * h
           THEN canvas_h = h /\ IsNearest(canvas_w, h * num, den)
           ELSE canvas_w = w /\ IsNearest(canvas_h, w * den, num)

\* C25: for every positive source size, supported ratio and max_dimension,
\* _calculate_dimensions returns the two pairs of the algorithm that rounds
\* to the nearest integer in step 2, in step 3 and in step 4.
C25_RoundsToNearest ==
    pc \in {"geom_calculated", "geom_resized"} =>
        /\ ~dims.raised
        /\ RoundedResult(dims.value.new_width, dims.value.new_height,
                         dims.value.target_width, dims.value.target_height)

\* C30: _calculate_dimensions never upscales: new_width <= current_width and
\* new_height <= current_height, and when neither dimension of lines 66-74
\* exceeds max_dimension lines 76-83 leave both as they are.
C30_NeverUpscales ==
    GeomReturned =>
        LET n == FitToRatio(current_width, current_height, target_ratio[1], target_ratio[2])
        IN  /\ dims.value.new_width <= current_width
            /\ dims.value.new_height <= current_height
            /\ (n.w <= max_dimension /\ n.h <= max_dimension) =>
                  (dims.value.new_width = n.w /\ dims.value.new_height = n.h)

\* C30 witness: a source far below max_dimension came back with one
\* dimension as it was and the other one smaller.
C30_SmallSourceWitness ==
    /\ GeomReturned
    /\ 2 * current_width <= max_dimension
    /\ 2 * current_height <= max_dimension
    /\ dims.value.new_width = current_width
    /\ dims.value.new_height < current_height

(***************************************************************************)
(* The timing line of parse_srt (SpecSrt)                                  *)
(***************************************************************************)
\* C26: parse_srt accepts the second line of a block iff it is exactly
\* 'HH:MM:SS,mmm --> HH:MM:SS,mmm' with a single space on each side of the
\* arrow: any other second line, one without spaces or with several spaces
\* around '-->' too, makes the parse fail.
C26_TimingExactForm ==
    (pc = "srt_done" /\ srt_is_str) =>
        LET bs == srt_doc.blocks
            parsed == { k \in 1..Len(bs) : HasThreeTrimmedLines(bs[k]) }
        IN  /\ (\E k \in parsed : bs[k].timing[1] # GoodTiming) => srt_result.raised
            /\ (/\ parsed # {}
                /\ \A k \in parsed :
                      bs[k].first \in NumberLines /\ bs[k].timing[1] = GoodTiming)
                  => ~srt_result.raised

====
